---------------------------- MODULE Spec2Model ----------------------------
(* Model of the filmland-store-locator data scripts:                        *)
(*   scripts/merge-new-data.js   (the reconciler, main)                     *)
(*   scripts/export-review-list.js (the review-list exporter)               *)
(*   the clean-up audit script   (junk classifier + duplicate detector)     *)
(* A JavaScript string is a sequence of one-character strings, so that      *)
(* toLowerCase, replace, includes and the regular expressions of the source *)
(* are computed character by character.                                     *)
EXTENDS Integers, Sequences, FiniteSets, TLC

(***************************************************************************)
(* Characters and strings                                                  *)
(***************************************************************************)

Upper == <<"A","B","C","D","E","F","G","H","I","J","K","L","M",
           "N","O","P","Q","R","S","T","U","V","W","X","Y","Z">>

Lower == <<"a","b","c","d","e","f","g","h","i","j","k","l","m",
           "n","o","p","q","r","s","t","u","v","w","x","y","z">>

UpperSet == {Upper[i] : i \in DOMAIN Upper}

LowerSet == {Lower[i] : i \in DOMAIN Lower}

Digits == {"0","1","2","3","4","5","6","7","8","9"}

\* U+212A KELVIN SIGN: a non-ASCII character whose lower case is ASCII "k".
Kelvin == "U+212A"

\* The value a missing property reads as (never a character string).
Undefined == <<"<undefined>">>

\* String.prototype.toLowerCase on one character.
toLowerCaseChar(c) ==
    IF c \in UpperSet THEN Lower[CHOOSE i \in DOMAIN Upper : Upper[i] = c]
    ELSE IF c = Kelvin THEN "k"
    ELSE c

\* String.prototype.toLowerCase.
toLowerCase(s) == [i \in 1..Len(s) |-> toLowerCaseChar(s[i])]

\* s.replace(/[^...]/g, ''): delete every character outside the class keep.
replaceOutside(s, keep) == SelectSeq(s, LAMBDA c : c \in keep)

\* String.prototype.includes.
includes(s, pat) ==
    \E i \in 0..(Len(s) - Len(pat)) : SubSeq(s, i + 1, i + Len(pat)) = pat

\* /pat$/ : the string ends with pat.
endsWith(s, pat) ==
    /\ Len(s) >= Len(pat)
    /\ SubSeq(s, Len(s) - Len(pat) + 1, Len(s)) = pat

\* All strings over the alphabet A of length at most n.
StringsUpTo(A, n) == UNION {[1..k -> A] : k \in 0..n}

(***************************************************************************)
(* Key normalizer                                                          *)
(***************************************************************************)

\* A regex class that wrongly lets the separator through (as /[^a-z0-9|]/g does).
norm_keepsBar(s) ==
    IF s = Undefined \/ s = <<>> THEN <<>>
    ELSE replaceOutside(toLowerCase(s), LowerSet \cup Digits \cup {"|"})

\* A normalizer that keeps upper-case letters instead of lower-casing them.
norm_upperKept(s) ==
    IF s = Undefined \/ s = <<>> THEN <<>>
    ELSE replaceOutside(s, UpperSet \cup LowerSet \cup Digits)

\* const norm = (s) => String(s || '').toLowerCase().replace(/[^a-z0-9]/g, '')
norm(s) ==
    IF s = Undefined \/ s = <<>> THEN <<>>
    ELSE replaceOutside(toLowerCase(s), LowerSet \cup Digits)

\* function storeKey(name, city, state)
storeKey(name, city, state) ==
    norm(name) \o <<"|">> \o norm(city) \o <<"|">> \o norm(state)

(***************************************************************************)
(* Junk rules of the reconciler (merge-new-data.js, isJunk)                *)
(***************************************************************************)

\* What \s matches, among the characters of the model.
WhiteSpace == {" ", "\t"}

\* Line terminators, which '.' does not match.
LineTerminators == {"\n", "\r"}

\* /sample/i
re_sample(name) == includes(toLowerCase(name), <<"s","a","m","p","l","e">>)

\* /breakage/i
re_breakage(name) == includes(toLowerCase(name), <<"b","r","e","a","k","a","g","e">>)

\* /bill\s*back/i : 'bill', any run of white space, 'back'
re_bill_back(name) ==
    LET l == toLowerCase(name) IN
    \E i \in 1..Len(l), j \in 1..Len(l) :
        /\ i + 4 <= j
        /\ j + 3 <= Len(l)
        /\ SubSeq(l, i, i + 3) = <<"b","i","l","l">>
        /\ SubSeq(l, j, j + 3) = <<"b","a","c","k">>
        /\ \A k \in (i + 4)..(j - 1) : l[k] \in WhiteSpace

\* /quail.*distribut/i : 'quail', any run of non-line-terminators, 'distribut'
re_quail_distribut(name) ==
    LET l == toLowerCase(name) IN
    \E i \in 1..Len(l), j \in 1..Len(l) :
        /\ i + 5 <= j
        /\ j + 8 <= Len(l)
        /\ SubSeq(l, i, i + 4) = <<"q","u","a","i","l">>
        /\ SubSeq(l, j, j + 8) = <<"d","i","s","t","r","i","b","u","t">>
        /\ \A k \in (i + 5)..(j - 1) : name[k] \notin LineTerminators

\* /warehouse$/i
re_warehouse_end(name) == endsWith(toLowerCase(name), <<"w","a","r","e","h","o","u","s","e">>)

\* junkPatterns.some(p => p.test(name))
junkPatterns(name) ==
    \/ re_sample(name)
    \/ re_breakage(name)
    \/ re_bill_back(name)
    \/ re_quail_distribut(name)
    \/ re_warehouse_end(name)

\* new Set(['sendsips', 'wine.com'].map(norm))
junkNames == {norm(<<"s","e","n","d","s","i","p","s">>), norm(<<"w","i","n","e",".","c","o","m">>)}

\* function isJunk(row)
isJunk(row) ==
    \/ junkPatterns(row.store_name)
    \/ norm(row.store_name) \in junkNames
    \/ row.address = <<>> \/ row.address = <<"T","o","t","a","l">> \/ row.address = <<".">>

(***************************************************************************)
(* The ordered junk classifier of the clean-up audit script                *)
(***************************************************************************)

\* The outcome of one rule of the if / else-if chain: does it match the row?
rule_samples(r) == includes(toLowerCase(r.store_name), <<"s","a","m","p","l","e">>)

rule_breakage(r) == includes(toLowerCase(r.store_name), <<"b","r","e","a","k","a","g","e">>)

rule_bill_back(r) ==
    \/ includes(toLowerCase(r.store_name), <<"b","i","l","l"," ","b","a","c","k">>)
    \/ includes(toLowerCase(r.store_name), <<"b","i","l","l","b","a","c","k">>)

rule_own_company(r) ==
    /\ includes(toLowerCase(r.store_name), <<"f","i","l","m","l","a","n","d"," ","s","p","i","r","i","t","s">>)
    /\ ~includes(toLowerCase(r.store_name), <<"t","o","t","a","l"," ","w","i","n","e">>)

rule_hq_address(r) == includes(toLowerCase(r.address), <<"c","a","n","t","l","a","y">>)

rule_distributor(r) == includes(toLowerCase(r.store_name), <<"q","u","a","i","l"," ","d","i","s","t","r","i","b","u","t">>)

rule_warehouse(r) ==
    /\ endsWith(toLowerCase(r.store_name), <<"w","a","r","e","h","o","u","s","e">>)
    /\ ~includes(toLowerCase(r.store_name), <<"b","e","v","e","r","a","g","e">>)

rule_personal_name(r) ==
    \/ toLowerCase(r.store_name) = <<"e","r","i","c"," ","c","r","a","n","e">>
    \/ toLowerCase(r.store_name) = <<"t","h","o","m","a","s"," ","d","a","v","i","s">>

rule_no_address(r) ==
    r.address = <<>> \/ r.address = <<".">> \/ r.address = <<"T","o","t","a","l">>

\* A rule that finds 'llc' or 'inc' anywhere in the address.
rule_corporate_address_anywhere(r) ==
    /\ Len(r.address) > 0
    /\ r.address[1] \in UpperSet \cup LowerSet
    /\ \/ includes(toLowerCase(r.address), <<"l","l","c">>)
       \/ includes(toLowerCase(r.address), <<"i","n","c">>)
    /\ \A k \in 1..Len(r.address) : r.address[k] \notin Digits

\* /^[a-zA-Z]/.test(address) && (' llc' or ' inc' in it) && !/\d/.test(address)
rule_corporate_address(r) ==
    /\ Len(r.address) > 0
    /\ r.address[1] \in UpperSet \cup LowerSet
    /\ \/ includes(toLowerCase(r.address), <<" ","l","l","c">>)
       \/ includes(toLowerCase(r.address), <<" ","i","n","c">>)
    /\ \A k \in 1..Len(r.address) : r.address[k] \notin Digits

rule_online_retailer(r) ==
    \/ toLowerCase(r.store_name) = <<"s","e","n","d","s","i","p","s">>
    \/ toLowerCase(r.store_name) = <<"w","i","n","e",".","c","o","m">>

\* A chain that tests the HQ address before the name rules.
classify_junk_addressFirst(r) ==
    IF rule_hq_address(r) THEN "Filmland HQ address"
    ELSE IF rule_samples(r) THEN "samples"
    ELSE IF rule_breakage(r) THEN "breakage"
    ELSE IF rule_bill_back(r) THEN "bill back"
    ELSE IF rule_own_company(r) THEN "own company"
    ELSE IF rule_distributor(r) THEN "distributor"
    ELSE IF rule_warehouse(r) THEN "warehouse"
    ELSE IF rule_personal_name(r) THEN "personal name, not a store"
    ELSE IF rule_no_address(r) THEN "no address"
    ELSE IF rule_corporate_address(r) THEN "corporate address, not street"
    ELSE IF rule_online_retailer(r) THEN "online retailer"
    ELSE ""

\* The if / else-if chain: the reason of a row, '' when no rule matches.
classify_junk(r) ==
    IF rule_samples(r) THEN "samples"
    ELSE IF rule_breakage(r) THEN "breakage"
    ELSE IF rule_bill_back(r) THEN "bill back"
    ELSE IF rule_own_company(r) THEN "own company"
    ELSE IF rule_hq_address(r) THEN "Filmland HQ address"
    ELSE IF rule_distributor(r) THEN "distributor"
    ELSE IF rule_warehouse(r) THEN "warehouse"
    ELSE IF rule_personal_name(r) THEN "personal name, not a store"
    ELSE IF rule_no_address(r) THEN "no address"
    ELSE IF rule_corporate_address(r) THEN "corporate address, not street"
    ELSE IF rule_online_retailer(r) THEN "online retailer"
    ELSE ""

(***************************************************************************)
(* State                                                                   *)
(***************************************************************************)

VARIABLES
    \* key normalizer applied to one value, and to its own result
    normIn, normOnce, normTwice, normPc,
    \* storeKey applied to two (name, city, state) records
    rec1, rec2, key1, key2, keyPc,
    \* merge-new-data.js, main()
    sheetRows, origRows, newRows, currentKeys, origKeys, removedKeys,
    newStores, existingCount, blockedCount, junkCount, seen,
    classified, summary, outputFile, blockedListing, mergePc,
    \* current-sheet-export.csv as the audit script and the exporter read it
    rows,
    \* the clean-up audit script
    junk, auditI, auditSeen, dupes, auditTotal, auditPc,
    \* export-review-list.js
    flagged, exportI, exportSeen, reviewFile, exportPc,
    \* cleanPhone applied to one cell value
    phoneIn, phoneOut, phonePc,
    \* matchProduct applied to one item name
    rawName, abbrev, matchPc,
    \* the pivot script: pivotRawData()
    offPremRows, onPremRows, storesMap, pivotI, importFile, pivotLog, pivotPc,
    \* the publish step: fetchStores()
    sheetCsvUrl, response, sheetCsv, httpRequests, storesJson, exitCode,
    publishPc,
    \* the spreadsheet macros: updateWebsite, normalizeAddresses,
    \* geocodeNewStores, triggerGitHubSync, fixCorporateAddresses
    sheet, values, geocoded, githubPat, macroEntry, macroPc, macroI, tally,
    geocodeCalls, dispatches, passesDone, abortedFrom, macroRuns,
    \* the map client: app.js
    stores, markers, onMap, markerSeq, currentLocation, currentRadius,
    filteredStores, currentFilters, storeList, pending, geolocated,
    clientEvents

normVars == <<normIn, normOnce, normTwice, normPc>>

keyVars == <<rec1, rec2, key1, key2, keyPc>>

mergeVars == <<sheetRows, origRows, newRows, currentKeys, origKeys, removedKeys,
               newStores, existingCount, blockedCount, junkCount, seen,
               classified, summary, outputFile, blockedListing, mergePc>>

auditVars == <<junk, auditI, auditSeen, dupes, auditTotal, auditPc>>

exportVars == <<flagged, exportI, exportSeen, reviewFile, exportPc>>

phoneVars == <<phoneIn, phoneOut, phonePc>>

matchVars == <<rawName, abbrev, matchPc>>

pivotVars == <<offPremRows, onPremRows, storesMap, pivotI, importFile, pivotLog,
               pivotPc>>

\* The variables of the raw-data ingestion: the pivot and its two helpers.
ingestVars == <<phoneVars, matchVars, pivotVars>>

publishVars == <<sheetCsvUrl, response, sheetCsv, httpRequests, storesJson,
                 exitCode, publishPc>>

\* The variables of what runs on the curated sheet: the publish step, the
\* spreadsheet macros and the map client.
macroVars == <<sheet, values, geocoded, githubPat, macroEntry, macroPc, macroI,
               tally, geocodeCalls, dispatches, passesDone, abortedFrom,
               macroRuns>>

clientVars == <<stores, markers, onMap, markerSeq, currentLocation,
                currentRadius, filteredStores, currentFilters, storeList,
                pending, geolocated, clientEvents>>

opsVars == <<publishVars, macroVars, clientVars>>

vars == <<normVars, keyVars, mergeVars, rows, auditVars, exportVars, ingestVars,
          opsVars>>

\* The variables nothing that runs on the curated sheet touches.
nonOpsVars == <<normVars, keyVars, mergeVars, rows, auditVars, exportVars,
               ingestVars>>

\* The variables a call of norm never touches.
nonNormVars == <<keyVars, mergeVars, rows, auditVars, exportVars, ingestVars,
    opsVars>>

\* The variables a call of storeKey never touches.
nonKeyVars == <<normVars, mergeVars, rows, auditVars, exportVars, ingestVars,
    opsVars>>

\* The variables main() of merge-new-data.js never touches.
nonMergeVars == <<normVars, keyVars, rows, auditVars, exportVars, ingestVars,
    opsVars>>

\* The variables the audit script never touches.
nonAuditVars == <<normVars, keyVars, mergeVars, exportVars, ingestVars,
    opsVars>>

\* The variables the exporter never touches.
nonExportVars == <<normVars, keyVars, mergeVars, auditVars, ingestVars,
    opsVars>>

\* The variables of the reconciliation and review scripts, which the pivot
\* script and its helpers never touch.
nonIngestVars == <<normVars, keyVars, mergeVars, rows, auditVars, exportVars,
    opsVars>>

\* A CSV row as csv-parse returns it (columns: true, trim: true).
Row(name, address, city, state) ==
    [store_name |-> name, address |-> address, city |-> city, state |-> state]

\* The variables of a script that is not running.
NormIdle ==
    /\ normIn = Undefined
    /\ normOnce = Undefined
    /\ normTwice = Undefined
    /\ normPc = "idle"

KeyIdle ==
    /\ rec1 = Row(<<>>, <<>>, <<>>, <<>>)   \* '' / '' / '' / ''
    /\ rec2 = Row(<<>>, <<>>, <<>>, <<>>)   \* '' / '' / '' / ''
    /\ key1 = Undefined
    /\ key2 = Undefined
    /\ keyPc = "idle"

MergeIdle ==
    /\ sheetRows = {}
    /\ origRows = {}
    /\ newRows = <<>>
    /\ currentKeys = {}
    /\ origKeys = {}
    /\ removedKeys = {}
    /\ newStores = <<>>
    /\ existingCount = 0
    /\ blockedCount = 0
    /\ junkCount = 0
    /\ seen = {}
    /\ classified = <<>>
    /\ summary = <<>>
    /\ outputFile = [written |-> FALSE, rows |-> <<>>]
    /\ blockedListing = <<>>
    /\ mergePc = "idle"

AuditIdle ==
    /\ junk = <<>>
    /\ auditI = 0
    /\ auditSeen = [k \in {} |-> 0]
    /\ dupes = <<>>
    /\ auditTotal = 0
    /\ auditPc = "idle"

ExportIdle ==
    /\ flagged = <<>>
    /\ exportI = 0
    /\ exportSeen = [k \in {} |-> 0]
    /\ reviewFile = [written |-> FALSE, rows |-> <<>>]
    /\ exportPc = "idle"

\* Neither the audit script nor the exporter is running.
ReviewIdle ==
    /\ rows = <<>>
    /\ AuditIdle
    /\ ExportIdle

PhoneIdle ==
    /\ phoneIn = Undefined
    /\ phoneOut = Undefined
    /\ phonePc = "idle"

MatchIdle ==
    /\ rawName = Undefined
    /\ abbrev = "undefined"
    /\ matchPc = "idle"

PivotIdle ==
    /\ offPremRows = <<>>
    /\ onPremRows = <<>>
    /\ storesMap = <<>>
    /\ pivotI = 0
    /\ importFile = [written |-> FALSE, rows |-> <<>>]
    /\ pivotLog = <<>>
    /\ pivotPc = "idle"

\* The pivot script is not running and its helpers are not being called.
IngestIdle ==
    /\ PhoneIdle
    /\ MatchIdle
    /\ PivotIdle

\* The publish step has not been started.
PublishIdle ==
    /\ sheetCsvUrl = Undefined
    /\ response = "none"
    /\ sheetCsv = <<>>
    /\ httpRequests = 0
    /\ storesJson = [written |-> FALSE, rows |-> <<>>]
    /\ exitCode = "none"
    /\ publishPc = "idle"

\* No macro of the spreadsheet has been started.
MacroIdle ==
    /\ sheet = <<>>
    /\ values = <<>>
    /\ geocoded = <<>>
    /\ githubPat = FALSE
    /\ macroEntry = "none"
    /\ macroPc = "idle"
    /\ macroI = 0
    /\ tally = [ok |-> 0, skipped |-> 0, errors |-> 0]
    /\ geocodeCalls = 0
    /\ dispatches = 0
    /\ passesDone = <<>>
    /\ abortedFrom = [set |-> FALSE, pass |-> "none", values |-> <<>>]
    /\ macroRuns = 0

\* The page of the map client has not been opened.
ClientIdle ==
    /\ stores = <<>>
    /\ markers = <<>>
    /\ onMap = {}
    /\ markerSeq = 0
    /\ currentLocation = <<>>
    /\ currentRadius = 0
    /\ filteredStores = <<>>
    /\ currentFilters = [type |-> <<>>, product |-> ""]
    /\ storeList = <<>>
    /\ pending = 0
    /\ geolocated = FALSE
    /\ clientEvents = 0

\* Nothing runs on the curated sheet or on its published copy.
OpsIdle == PublishIdle /\ MacroIdle /\ ClientIdle

\* None of the reconciliation and review scripts is running.
ReconcileIdle ==
    /\ NormIdle
    /\ KeyIdle
    /\ MergeIdle
    /\ ReviewIdle

(***************************************************************************)
(* The reconciler: merge-new-data.js, main()                               *)
(***************************************************************************)

\* Longest new batch (initial-import.csv) of the model.
MaxNew == 3

\* Rows current-sheet-export.csv may hold.
SheetPool ==
    \* 'Joe's Wine & Spirits' / '1 Main St' / 'LA' / 'CA'
    { Row(<<"J","o","e","'","s"," ","W","i","n","e"," ","&"," ","S","p","i","r","i","t","s">>,
          <<"1"," ","M","a","i","n"," ","S","t">>,
          <<"L","A">>,
          <<"C","A">>) }

\* Rows original-import.csv may hold.
OrigPool ==
    \* 'Joe's Wine & Spirits' / '1 Main St' / 'LA' / 'CA'
    { Row(<<"J","o","e","'","s"," ","W","i","n","e"," ","&"," ","S","p","i","r","i","t","s">>,
          <<"1"," ","M","a","i","n"," ","S","t">>,
          <<"L","A">>,
          <<"C","A">>),
      Row(<<"A","B","C"," ","W","a","r","e","h","o","u","s","e">>,
          <<"3"," ","O","a","k"," ","S","t">>,
          <<"N","Y">>,
          <<"N","Y">>) }   \* 'ABC Warehouse' / '3 Oak St' / 'NY' / 'NY'

\* Rows initial-import.csv may hold.
NewPool ==
    \* 'JOES WINE SPIRITS' / '1 Main Street' / 'la' / 'ca'
    { Row(<<"J","O","E","S"," ","W","I","N","E"," ","S","P","I","R","I","T","S">>,
          <<"1"," ","M","a","i","n"," ","S","t","r","e","e","t">>,
          <<"l","a">>,
          <<"c","a">>),
      Row(<<"A","B","C"," ","W","a","r","e","h","o","u","s","e">>,
          <<"3"," ","O","a","k"," ","S","t">>,
          <<"N","Y">>,
          <<"N","Y">>),   \* 'ABC Warehouse' / '3 Oak St' / 'NY' / 'NY'
      Row(<<"C","o","r","n","e","r"," ","S","h","o","p">>,
          <<"4"," ","P","i","n","e"," ","S","t">>,
          <<"L","A">>,
          <<"C","A">>),   \* 'Corner Shop' / '4 Pine St' / 'LA' / 'CA'
      \* 'corner shop!' / '4 Pine Street' / 'L.A.' / 'CA'
      Row(<<"c","o","r","n","e","r"," ","s","h","o","p","!">>,
          <<"4"," ","P","i","n","e"," ","S","t","r","e","e","t">>,
          <<"L",".","A",".">>,
          <<"C","A">>),
      Row(<<"C","o","r","n","e","r"," ","S","h","o","p">>,
          <<>>,
          <<"L","A">>,
          <<"C","A">>),   \* 'Corner Shop' / '' / 'LA' / 'CA'
      \* 'Filmland Spirits' / '6 Cantlay St' / 'LA' / 'CA'
      Row(<<"F","i","l","m","l","a","n","d"," ","S","p","i","r","i","t","s">>,
          <<"6"," ","C","a","n","t","l","a","y"," ","S","t">>,
          <<"L","A">>,
          <<"C","A">>) }

\* new Set(rows.map(r => storeKey(r.store_name, r.city, r.state)))
keySet(rs) == {storeKey(r.store_name, r.city, r.state) : r \in rs}

\* A removed set that is not cut down to the keys missing from the sheet.
removedKeysOf_all(orig, cur) == keySet(orig)

\* removedKeys: the keys of the original rows that currentKeys does not have.
removedKeysOf(orig, cur) ==
    {k \in keySet(orig) : k \notin cur}

\* An if / else-if chain that filters junk before it looks at removedKeys.
branchOf_junkFirst(key, row, cur, rem, sn) ==
    IF key \in cur THEN "already_present"
    ELSE IF isJunk(row) THEN "junk"
    ELSE IF key \in rem THEN "blocked"
    ELSE IF key \in sn THEN "duplicate"
    ELSE "new"

\* An if / else-if chain without the seen test.
branchOf_noSeen(key, row, cur, rem, sn) ==
    IF key \in cur THEN "already_present"
    ELSE IF key \in rem THEN "blocked"
    ELSE IF isJunk(row) THEN "junk"
    ELSE "new"

\* The if / else-if chain of the main loop: the branch a row takes.
branchOf(key, row, cur, rem, sn) ==
    IF key \in cur THEN "already_present"
    ELSE IF key \in rem THEN "blocked"
    ELSE IF isJunk(row) THEN "junk"
    ELSE IF key \in sn THEN "duplicate"
    ELSE "new"

\* A loop that counts the junk branch only.
junkCountStep_junkOnly(branch, n) ==
    IF branch = "junk" THEN n + 1 ELSE n

\* junkCount++ : in the junk branch and in the dupe branch.
junkCountStep(branch, n) ==
    IF branch \in {"junk", "duplicate"} THEN n + 1 ELSE n

\* Lines 21-31 and 65-69: the three files as read, the counters at zero.
MergeInit ==
    /\ NormIdle
    /\ KeyIdle
    /\ ReviewIdle
    /\ sheetRows \in SUBSET SheetPool
    /\ origRows \in SUBSET OrigPool
    /\ newRows \in StringsUpTo(NewPool, MaxNew)
    /\ currentKeys = {}
    /\ origKeys = {}
    /\ removedKeys = {}
    /\ newStores = <<>>
    /\ existingCount = 0
    /\ blockedCount = 0
    /\ junkCount = 0
    /\ seen = {}
    /\ classified = <<>>
    /\ summary = <<>>
    /\ outputFile = [written |-> FALSE, rows |-> <<>>]
    /\ blockedListing = <<>>
    /\ mergePc = "keys"
    /\ IngestIdle
    /\ OpsIdle

\* Lines 33-44: currentKeys, origKeys, removedKeys.
BuildKeySets ==
    /\ mergePc = "keys"
    /\ currentKeys' = keySet(sheetRows)
    /\ origKeys' = keySet(origRows)
    /\ removedKeys' = removedKeysOf(origRows, keySet(sheetRows))
    /\ mergePc' = "loop"
    /\ UNCHANGED nonMergeVars
    /\ UNCHANGED <<sheetRows, origRows, newRows, newStores, existingCount,
                   blockedCount, junkCount, seen, classified, summary,
                   outputFile, blockedListing>>

\* One iteration of for (const row of newRows).
ClassifyRow ==
    /\ mergePc = "loop"
    /\ Len(classified) < Len(newRows)
    /\ LET row == newRows[Len(classified) + 1]
           key == storeKey(row.store_name, row.city, row.state)
           branch == branchOf(key, row, currentKeys, removedKeys, seen)
       IN  /\ classified' = Append(classified, branch)
           /\ existingCount' =
                  IF branch = "already_present" THEN existingCount + 1
                  ELSE existingCount
           /\ blockedCount' =
                  IF branch = "blocked" THEN blockedCount + 1 ELSE blockedCount
           /\ junkCount' = junkCountStep(branch, junkCount)
           /\ seen' = IF branch = "new" THEN seen \cup {key} ELSE seen
           /\ newStores' =
                  IF branch = "new" THEN Append(newStores, row) ELSE newStores
    /\ UNCHANGED nonMergeVars
    /\ UNCHANGED <<sheetRows, origRows, newRows, currentKeys, origKeys,
                   removedKeys, summary, outputFile, blockedListing, mergePc>>

\* Lines 89-93: the four lines of the summary.
PrintResults ==
    /\ mergePc = "loop"
    /\ Len(classified) = Len(newRows)
    /\ summary' = << <<"Already in sheet", existingCount>>,
                     <<"Blocked (previously removed)", blockedCount>>,
                     <<"Filtered (junk/dupes)", junkCount>>,
                     <<"New stores to add", Len(newStores)>> >>
    /\ mergePc' = "write"
    /\ UNCHANGED nonMergeVars
    /\ UNCHANGED <<sheetRows, origRows, newRows, currentKeys, origKeys,
                   removedKeys, newStores, existingCount, blockedCount,
                   junkCount, seen, classified, outputFile, blockedListing>>

\* Lines 95-116: new-stores-to-add.csv, written only when there is a new store.
WriteNewStores ==
    /\ mergePc = "write"
    /\ outputFile' =
           IF Len(newStores) > 0 THEN [written |-> TRUE, rows |-> newStores]
           ELSE outputFile
    /\ mergePc' = "blocked"
    /\ UNCHANGED nonMergeVars
    /\ UNCHANGED <<sheetRows, origRows, newRows, currentKeys, origKeys,
                   removedKeys, newStores, existingCount, blockedCount,
                   junkCount, seen, classified, summary, blockedListing>>

\* Lines 118-127: the listing of the blocked stores.
ShowBlocked ==
    /\ mergePc = "blocked"
    /\ blockedListing' =
           IF blockedCount > 0
           THEN SelectSeq(newRows,
                    LAMBDA r : storeKey(r.store_name, r.city, r.state)
                                   \in removedKeys)
           ELSE <<>>
    /\ mergePc' = "done"
    /\ UNCHANGED nonMergeVars
    /\ UNCHANGED <<sheetRows, origRows, newRows, currentKeys, origKeys,
                   removedKeys, newStores, existingCount, blockedCount,
                   junkCount, seen, classified, summary, outputFile>>

MergeNext ==
    \/ BuildKeySets
    \/ ClassifyRow
    \/ PrintResults
    \/ WriteNewStores
    \/ ShowBlocked

SpecMerge == MergeInit /\ [][MergeNext]_vars

(***************************************************************************)
(* Properties of the reconciler                                            *)
(***************************************************************************)

rowKey(r) == storeKey(r.store_name, r.city, r.state)

Classes == {"already_present", "blocked", "junk", "duplicate", "new"}

\* The number of processed rows that took the branch c.
CountClass(c) == Cardinality({i \in 1..Len(classified) : classified[i] = c})

\* The indices k of 1..n with P(k), in increasing order.
IndicesWhere(n, P(_)) ==
    LET f[k \in 0..n] ==
            IF k = 0 THEN <<>>
            ELSE IF P(k) THEN Append(f[k - 1], k) ELSE f[k - 1]
    IN  f[n]

\* The rows of the batch at the indices idx.
BatchRowsAt(idx) == [j \in 1..Len(idx) |-> newRows[idx[j]]]

\* The key of batch row i is in the original import and not in the sheet.
KeyWasRemoved(i) ==
    /\ rowKey(newRows[i]) \in keySet(origRows)
    /\ rowKey(newRows[i]) \notin keySet(sheetRows)

\* C1: every batch row whose key is in the original import and not in the
\* current sheet is classified blocked, is counted in blockedCount and is never
\* put in the new-stores output, also when the row is junk or repeats a key.
C1_BlockedDominates ==
    /\ \A i \in 1..Len(classified) :
           KeyWasRemoved(i) => classified[i] = "blocked"
    /\ blockedCount =
           Cardinality({i \in 1..Len(classified) : KeyWasRemoved(i)})
    /\ \A k \in 1..Len(newStores) :
           ~(/\ rowKey(newStores[k]) \in keySet(origRows)
             /\ rowKey(newStores[k]) \notin keySet(sheetRows))
    /\ \A k \in 1..Len(outputFile.rows) :
           ~(/\ rowKey(outputFile.rows[k]) \in keySet(origRows)
             /\ rowKey(outputFile.rows[k]) \notin keySet(sheetRows))

\* A finished run with a blocked row that is junk too, followed by a blocked
\* row that repeats its key.
C1_Witness ==
    /\ mergePc = "done"
    /\ \E i \in 1..Len(newRows), j \in 1..Len(newRows) :
           /\ i < j
           /\ KeyWasRemoved(i)
           /\ isJunk(newRows[i])
           /\ rowKey(newRows[j]) = rowKey(newRows[i])
           /\ classified[i] = "blocked"
           /\ classified[j] = "blocked"

\* Batch row i is the first non-junk row of a key that is neither current
\* nor removed.
FirstGoodOfKey(i) ==
    /\ rowKey(newRows[i]) \notin keySet(sheetRows)
    /\ rowKey(newRows[i]) \notin keySet(origRows)
    /\ ~isJunk(newRows[i])
    /\ \A j \in 1..(i - 1) :
           ~(rowKey(newRows[j]) = rowKey(newRows[i]) /\ ~isJunk(newRows[j]))

\* C2: the new-stores output is, in batch order, exactly the first non-junk row
\* of each key that is neither current nor removed; its keys are pairwise
\* distinct and none of them is a key of the current sheet.
C2_NewStoresExact ==
    /\ mergePc # "keys" =>
           newStores = BatchRowsAt(IndicesWhere(Len(classified), FirstGoodOfKey))
    /\ \A a \in 1..Len(newStores), b \in 1..Len(newStores) :
           a # b => rowKey(newStores[a]) # rowKey(newStores[b])
    /\ \A a \in 1..Len(newStores) :
           rowKey(newStores[a]) \notin keySet(sheetRows)
    /\ outputFile.written => outputFile.rows = newStores

\* A finished run whose batch has a junk row, then a good row of the same key
\* (written), then a third row of that key (not written).
C2_Witness ==
    /\ mergePc = "done"
    /\ outputFile.written
    /\ \E i \in 1..Len(newRows), j \in 1..Len(newRows), k \in 1..Len(newRows) :
           /\ i < j /\ j < k
           /\ rowKey(newRows[i]) = rowKey(newRows[j])
           /\ rowKey(newRows[j]) = rowKey(newRows[k])
           /\ classified[i] = "junk"
           /\ classified[j] = "new"
           /\ classified[k] = "duplicate"
    /\ Len(newStores) = 1

\* C3 (as claimed): a row that reaches the junk check is treated as junk iff
\* the ordered ten-rule classifier returns a reason for it.
C3_JunkIffClassifier ==
    \A i \in 1..Len(classified) :
        classified[i] \in {"junk", "duplicate", "new"} =>
            ((classified[i] = "junk") <=> (classify_junk(newRows[i]) # ""))

\* C4 (as claimed): the count the summary gives for junk is the number of rows
\* classified junk (one count per class).
C4_OneCountPerClass ==
    mergePc = "done" => summary[3][2] = CountClass("junk")

\* C4 (amended): every row gets exactly one of the five classes; the summary
\* has four counts, already-in-sheet, blocked, filtered (junk and duplicate
\* together) and new; each is the number of rows of its class(es) and the
\* four sum to the number of rows of the batch.
C4_FourCounts ==
    /\ \A i \in 1..Len(classified) : classified[i] \in Classes
    /\ mergePc \in {"write", "blocked", "done"} =>
           /\ Len(classified) = Len(newRows)
           /\ Len(summary) = 4
           /\ summary[1][2] = CountClass("already_present")
           /\ summary[2][2] = CountClass("blocked")
           /\ summary[3][2] = CountClass("junk") + CountClass("duplicate")
           /\ summary[4][2] = CountClass("new")
           /\ summary[1][2] + summary[2][2] + summary[3][2] + summary[4][2]
                  = Len(newRows)

\* A finished run with a junk row and a duplicate row, both in the one
\* filtered count.
C4_Witness ==
    /\ mergePc = "done"
    /\ CountClass("junk") = 1
    /\ CountClass("duplicate") = 1
    /\ summary[3][2] = 2

\* C5: the blocked-stores listing holds exactly the batch rows classified
\* blocked, in batch order, and is as long as the blocked count.
C5_BlockedListing ==
    mergePc = "done" =>
        /\ blockedListing =
               BatchRowsAt(IndicesWhere(Len(newRows),
                               LAMBDA i : classified[i] = "blocked"))
        /\ Len(blockedListing) = blockedCount

\* A finished run that lists a blocked row and whose batch also has a row
\* already in the sheet and in the original import.
C5_Witness ==
    /\ mergePc = "done"
    /\ Len(blockedListing) >= 1
    /\ \E i \in 1..Len(newRows) :
           /\ classified[i] = "already_present"
           /\ rowKey(newRows[i]) \in origKeys

(***************************************************************************)
(* The key normalizer on its own: norm(s) and norm(norm(s))                *)
(***************************************************************************)

\* Longest argument of norm in the model.
MaxNormLen == 3

\* Characters of the arguments: lower case, upper case, digit, punctuation,
\* the key separator, white space, a non-ASCII letter.
NormAlphabet == {"a", "A", "7", "-", "|", " ", Kelvin}

\* norm is about to be called on a string or on a missing field.
NormInit ==
    /\ normIn \in StringsUpTo(NormAlphabet, MaxNormLen) \cup {Undefined}
    /\ normOnce = Undefined
    /\ normTwice = Undefined
    /\ normPc = "in"
    /\ KeyIdle
    /\ MergeIdle
    /\ ReviewIdle
    /\ IngestIdle
    /\ OpsIdle

\* norm(s)
NormApply ==
    /\ normPc = "in"
    /\ normOnce' = norm(normIn)
    /\ normPc' = "once"
    /\ UNCHANGED <<normIn, normTwice>>
    /\ UNCHANGED nonNormVars

\* norm(norm(s))
NormApplyAgain ==
    /\ normPc = "once"
    /\ normTwice' = norm(normOnce)
    /\ normPc' = "twice"
    /\ UNCHANGED <<normIn, normOnce>>
    /\ UNCHANGED nonNormVars

NormNext ==
    \/ NormApply
    \/ NormApplyAgain

SpecNorm == NormInit /\ [][NormNext]_vars

\* C8: norm is idempotent, its result holds only characters of [a-z0-9], and
\* the empty string and a missing value both give the empty string.
C8_NormIdempotent ==
    /\ normPc \in {"once", "twice"} =>
           /\ \A i \in 1..Len(normOnce) : normOnce[i] \in LowerSet \cup Digits
           /\ normIn \in {<<>>, Undefined} => normOnce = <<>>
    /\ normPc = "twice" => normTwice = normOnce

\* norm applied twice to a string with an upper-case letter, punctuation and
\* a non-ASCII letter.
C8_Witness ==
    /\ normPc = "twice"
    /\ normIn = <<"A", "-", Kelvin>>
    /\ normOnce = <<"a", "k">>
    /\ normTwice = <<"a", "k">>

(***************************************************************************)
(* storeKey on two (name, city, state) records                             *)
(***************************************************************************)

\* Most characters in the three fields of a record, taken together.
MaxKeyChars == 2

KeyAlphabet == {"a", "A", "b", "1", "-", "|"}

\* The records whose name, city and state have at most MaxKeyChars characters
\* in all.
KeyRecords ==
    LET S == StringsUpTo(KeyAlphabet, MaxKeyChars) IN
    {Row(n, <<>>, c, s) : <<n, c, s>> \in
        {t \in S \X S \X S : Len(t[1]) + Len(t[2]) + Len(t[3]) <= MaxKeyChars}}

NoRecord == Row(<<>>, <<>>, <<>>, <<>>)   \* '' / '' / '' / ''

\* Two rows are about to be keyed.
KeyInit ==
    /\ rec1 \in KeyRecords
    /\ rec2 = NoRecord
    /\ key1 = Undefined
    /\ key2 = Undefined
    /\ keyPc = "first"
    /\ NormIdle
    /\ MergeIdle
    /\ ReviewIdle
    /\ IngestIdle
    /\ OpsIdle

\* storeKey(r.store_name, r.city, r.state) for the first row
KeyFirst ==
    /\ keyPc = "first"
    /\ key1' = storeKey(rec1.store_name, rec1.city, rec1.state)
    /\ keyPc' = "second"
    /\ UNCHANGED <<rec1, rec2, key2>>
    /\ UNCHANGED nonKeyVars

\* storeKey(r.store_name, r.city, r.state) for another row
KeySecond ==
    /\ keyPc = "second"
    /\ \E r \in KeyRecords :
           /\ rec2' = r
           /\ key2' = storeKey(r.store_name, r.city, r.state)
    /\ keyPc' = "both"
    /\ UNCHANGED <<rec1, key1>>
    /\ UNCHANGED nonKeyVars

KeyNext ==
    \/ KeyFirst
    \/ KeySecond

SpecKey == KeyInit /\ [][KeyNext]_vars

\* C9: two records have the same composite key iff their names, their cities
\* and their states have the same normal form: case and characters outside
\* [a-z0-9] do not count, alphanumeric content does, and nothing crosses the
\* '|' separators.
C9_KeyInjective ==
    keyPc = "both" =>
        ((key1 = key2) <=>
            /\ norm(rec1.store_name) = norm(rec2.store_name)
            /\ norm(rec1.city) = norm(rec2.city)
            /\ norm(rec1.state) = norm(rec2.state))

\* Two records that differ in case and in a '|' typed in the name, with the
\* same key.
C9_Witness ==
    /\ keyPc = "both"
    /\ rec1.store_name = <<"A", "|">>
    /\ rec2.store_name = <<"a">>
    /\ rec1.city = <<>> /\ rec2.city = <<>>
    /\ key1 = key2

(***************************************************************************)
(* The duplicate detector (export-review-list.js and the audit script)     *)
(***************************************************************************)

\* (r.store_name + '|' + r.city + '|' + r.state).toLowerCase()
\*     .replace(/[^a-z0-9|]/g, '')
detKey(r) ==
    replaceOutside(
        toLowerCase(r.store_name \o <<"|">> \o r.city \o <<"|">> \o r.state),
        LowerSet \cup Digits \cup {"|"})

\* A detector that overwrites the entry of a key it has seen.
seenAfter_overwrite(seenMap, key, i) ==
    [k \in DOMAIN seenMap \cup {key} |-> IF k = key THEN i ELSE seenMap[k]]

\* seen.has(key) ? seen : seen.set(key, i)
seenAfter(seenMap, key, i) ==
    IF key \in DOMAIN seenMap THEN seenMap
    ELSE [k \in DOMAIN seenMap \cup {key} |-> IF k = key THEN i ELSE seenMap[k]]

\* new Map()
EmptyMap == [k \in {} |-> 0]

(***************************************************************************)
(* The clean-up audit script: junk loop, duplicate loop, report            *)
(***************************************************************************)

\* Longest sheet the audit script reads in the model.
MaxAuditRows == 2

\* Rows current-sheet-export.csv may hold when the audit script runs.
AuditPool ==
    \* 'Sample - Filmland Spirits HQ' / '7 Cantlay St' / 'LA' / 'CA'
    { Row(<<"S","a","m","p","l","e"," ","-"," ","F","i","l","m","l","a","n","d"," ","S","p","i","r","i","t","s"," ","H","Q">>,
          <<"7"," ","C","a","n","t","l","a","y"," ","S","t">>,
          <<"L","A">>,
          <<"C","A">>),
      \* 'Breakage Billback' / '1 Main St' / 'LA' / 'CA'
      Row(<<"B","r","e","a","k","a","g","e"," ","B","i","l","l","b","a","c","k">>,
          <<"1"," ","M","a","i","n"," ","S","t">>,
          <<"L","A">>,
          <<"C","A">>),
      \* 'Bill Back Filmland Spirits' / '1 Main St' / 'LA' / 'CA'
      Row(<<"B","i","l","l"," ","B","a","c","k"," ","F","i","l","m","l","a","n","d"," ","S","p","i","r","i","t","s">>,
          <<"1"," ","M","a","i","n"," ","S","t">>,
          <<"L","A">>,
          <<"C","A">>),
      \* 'Filmland Spirits' / '6 Cantlay St' / 'LA' / 'CA'
      Row(<<"F","i","l","m","l","a","n","d"," ","S","p","i","r","i","t","s">>,
          <<"6"," ","C","a","n","t","l","a","y"," ","S","t">>,
          <<"L","A">>,
          <<"C","A">>),
      \* 'Filmland Spirits at Total Wine' / '8 Oak St' / 'LA' / 'CA'
      Row(<<"F","i","l","m","l","a","n","d"," ","S","p","i","r","i","t","s"," ","a","t"," ","T","o","t","a","l"," ","W","i","n","e">>,
          <<"8"," ","O","a","k"," ","S","t">>,
          <<"L","A">>,
          <<"C","A">>),
      \* 'Quail Distributing Warehouse' / '9 Cantlay St' / 'LA' / 'CA'
      Row(<<"Q","u","a","i","l"," ","D","i","s","t","r","i","b","u","t","i","n","g"," ","W","a","r","e","h","o","u","s","e">>,
          <<"9"," ","C","a","n","t","l","a","y"," ","S","t">>,
          <<"L","A">>,
          <<"C","A">>),
      Row(<<"Q","u","a","i","l"," ","D","i","s","t","r","i","b","u","t","i","n","g">>,
          <<>>,
          <<"L","A">>,
          <<"C","A">>),   \* 'Quail Distributing' / '' / 'LA' / 'CA'
      Row(<<"A","B","C"," ","W","a","r","e","h","o","u","s","e">>,
          <<".">>,
          <<"N","Y">>,
          <<"N","Y">>),   \* 'ABC Warehouse' / '.' / 'NY' / 'NY'
      \* 'Beverage Warehouse' / '3 Oak St' / 'NY' / 'NY'
      Row(<<"B","e","v","e","r","a","g","e"," ","W","a","r","e","h","o","u","s","e">>,
          <<"3"," ","O","a","k"," ","S","t">>,
          <<"N","Y">>,
          <<"N","Y">>),
      Row(<<"E","r","i","c"," ","C","r","a","n","e">>,
          <<>>,
          <<"L","A">>,
          <<"C","A">>),   \* 'Eric Crane' / '' / 'LA' / 'CA'
      Row(<<"w","i","n","e",".","c","o","m">>,
          <<"T","o","t","a","l">>,
          <<"L","A">>,
          <<"C","A">>),   \* 'wine.com' / 'Total' / 'LA' / 'CA'
      \* 'Corner Shop' / 'Acme Holdings LLC' / 'LA' / 'CA'
      Row(<<"C","o","r","n","e","r"," ","S","h","o","p">>,
          <<"A","c","m","e"," ","H","o","l","d","i","n","g","s"," ","L","L","C">>,
          <<"L","A">>,
          <<"C","A">>),
      \* 'Corner Shop' / 'Lincoln Plaza' / 'LA' / 'CA'
      Row(<<"C","o","r","n","e","r"," ","S","h","o","p">>, <<"L","i","n","c","o","l","n"," ","P","l","a","z","a">>, <<"L","A">>, <<"C","A">>),
      \* 'Corner Shop' / 'Acme Inc Suite 5' / 'LA' / 'CA'
      Row(<<"C","o","r","n","e","r"," ","S","h","o","p">>, <<"A","c","m","e"," ","I","n","c"," ","S","u","i","t","e"," ","5">>, <<"L","A">>, <<"C","A">>),
      \* 'Beverage Warehouse' / '#B Acme Inc' / 'NY' / 'NY'
      Row(<<"B","e","v","e","r","a","g","e"," ","W","a","r","e","h","o","u","s","e">>, <<"#","B"," ","A","c","m","e"," ","I","n","c">>, <<"N","Y">>, <<"N","Y">>),
      Row(<<"S","e","n","d","S","i","p","s">>,
          <<"O","n","l","i","n","e"," ","S","a","l","e","s"," ","I","n","c">>,
          <<"L","A">>,
          <<"C","A">>),   \* 'SendSips' / 'Online Sales Inc' / 'LA' / 'CA'
      Row(<<"s","e","n","d","s","i","p","s">>,
          <<"1"," ","W","e","b"," ","S","t">>,
          <<"L","A">>,
          <<"C","A">>),   \* 'sendsips' / '1 Web St' / 'LA' / 'CA'
      Row(<<"C","o","r","n","e","r"," ","S","h","o","p">>,
          <<"4"," ","P","i","n","e"," ","S","t">>,
          <<"L","A">>,
          <<"C","A">>) }   \* 'Corner Shop' / '4 Pine St' / 'LA' / 'CA'

\* Lines 39-43 and 79-80: the sheet as read, junk, seen and dupes empty.
AuditInit ==
    /\ rows \in StringsUpTo(AuditPool, MaxAuditRows)
    /\ junk = <<>>
    /\ auditI = 0
    /\ auditSeen = EmptyMap
    /\ dupes = <<>>
    /\ auditTotal = 0
    /\ auditPc = "junk"
    /\ NormIdle
    /\ KeyIdle
    /\ MergeIdle
    /\ ExportIdle
    /\ IngestIdle
    /\ OpsIdle

\* One iteration of the junk loop (lines 45-76), rows[i] being rows[auditI+1].
AuditJunkStep ==
    /\ auditPc = "junk"
    /\ auditI < Len(rows)
    /\ LET r == rows[auditI + 1]
           reason == classify_junk(r)
       IN  junk' = IF reason # ""
                   THEN Append(junk, [row |-> auditI + 2, name |-> r.store_name,
                                      address |-> r.address, city |-> r.city,
                                      state |-> r.state, reason |-> reason])
                   ELSE junk
    /\ auditI' = auditI + 1
    /\ UNCHANGED <<rows, auditSeen, dupes, auditTotal, auditPc>>
    /\ UNCHANGED nonAuditVars

\* The junk loop ends; const seen = new Map(); const dupes = [].
AuditJunkDone ==
    /\ auditPc = "junk"
    /\ auditI = Len(rows)
    /\ auditI' = 0
    /\ auditPc' = "dupes"
    /\ UNCHANGED <<rows, junk, auditSeen, dupes, auditTotal>>
    /\ UNCHANGED nonAuditVars

\* One iteration of the duplicate loop (lines 81-89).
AuditDupStep ==
    /\ auditPc = "dupes"
    /\ auditI < Len(rows)
    /\ LET r == rows[auditI + 1]
           key == detKey(r)
       IN  /\ dupes' = IF key \in DOMAIN auditSeen
                       THEN Append(dupes, [row |-> auditI + 2,
                                           name |-> r.store_name,
                                           city |-> r.city, state |-> r.state,
                                           firstRow |-> auditSeen[key] + 2])
                       ELSE dupes
           /\ auditSeen' = seenAfter(auditSeen, key, auditI)
    /\ auditI' = auditI + 1
    /\ UNCHANGED <<rows, junk, auditTotal, auditPc>>
    /\ UNCHANGED nonAuditVars

\* Lines 91-109: the report; 'Total to remove' is junk.length + dupes.length.
AuditReport ==
    /\ auditPc = "dupes"
    /\ auditI = Len(rows)
    /\ auditTotal' = Len(junk) + Len(dupes)
    /\ auditPc' = "done"
    /\ UNCHANGED <<rows, junk, auditI, auditSeen, dupes>>
    /\ UNCHANGED nonAuditVars

AuditNext ==
    \/ AuditJunkStep
    \/ AuditJunkDone
    \/ AuditDupStep
    \/ AuditReport

SpecAudit == AuditInit /\ [][AuditNext]_vars

(***************************************************************************)
(* The review-list exporter: export-review-list.js                         *)
(***************************************************************************)

\* Longest sheet the exporter reads in the model.
MaxRows == 3

\* A row of current-sheet-export.csv with its coordinate columns.
ExportRow(name, address, city, state, lat, lng) ==
    [store_name |-> name, address |-> address, city |-> city, state |-> state,
     lat |-> lat, lng |-> lng]

\* The rows A, A' and B: A and A' are one store spelt in two ways.
RowA ==
    \* 'Joe's Wine & Spirits' / '1 Main St' / 'LA' / 'CA'
    ExportRow(<<"J","o","e","'","s"," ","W","i","n","e"," ","&"," ","S","p","i","r","i","t","s">>,
        <<"1"," ","M","a","i","n"," ","S","t">>,
        <<"L","A">>,
        <<"C","A">>,
              <<"3","4",".","1">>, <<"-","1","1","8",".","2">>)

RowA2 ==
    \* 'Joes Wine Spirits' / '1 Main Street' / 'la' / 'ca'
    ExportRow(<<"J","o","e","s"," ","W","i","n","e"," ","S","p","i","r","i","t","s">>,
        <<"1"," ","M","a","i","n"," ","S","t","r","e","e","t">>,
        <<"l","a">>,
        <<"c","a">>,
              <<>>, <<>>)

RowB ==
    ExportRow(<<"C","o","r","n","e","r"," ","S","h","o","p">>,
        <<"4"," ","P","i","n","e"," ","S","t">>,
        <<"L","A">>,
        <<"C","A">>,
        <<"3","4",".","0">>,
        <<>>)   \* 'Corner Shop' / '4 Pine St' / 'LA' / 'CA' / '34.0' / ''

\* Rows current-sheet-export.csv may hold when the exporter runs.
ExportPool ==
    { RowA, RowA2, RowB,
      ExportRow(<<"a","|","b">>,
          <<"5"," ","E","l","m"," ","S","t">>,
          <<"c">>,
          <<"C","A">>,
          <<>>,
          <<>>),   \* 'a|b' / '5 Elm St' / 'c' / 'CA' / '' / ''
      ExportRow(<<"a">>,
          <<"5"," ","E","l","m"," ","S","t">>,
          <<"b","|","c">>,
          <<"C","A">>,
          <<>>,
          <<>>),   \* 'a' / '5 Elm St' / 'b|c' / 'CA' / '' / ''
      ExportRow(<<"a","b">>,
          <<"5"," ","E","l","m"," ","S","t">>,
          <<"c">>,
          <<"C","A">>,
          <<>>,
          <<>>),   \* 'ab' / '5 Elm St' / 'c' / 'CA' / '' / ''
      \* 'Filmland Spirits' / '6 Cantlay St' / 'LA' / 'CA' / '34.2' / '-118.4'
      ExportRow(<<"F","i","l","m","l","a","n","d"," ","S","p","i","r","i","t","s">>, <<"6"," ","C","a","n","t","l","a","y"," ","S","t">>, <<"L","A">>, <<"C","A">>,
                <<"3","4",".","2">>, <<"-","1","1","8",".","4">>),
      ExportRow(<<"S","a","m","p","l","e"," ","W","a","r","e","h","o","u","s","e">>,
          <<>>,
          <<"L","A">>,
          <<"C","A">>,
          <<>>,
          <<>>) }   \* 'Sample Warehouse' / '' / 'LA' / 'CA' / '' / ''

\* r.lat && r.lng && r.lat !== '' && r.lng !== ''
hasCoords(r) == r.lat # <<>> /\ r.lng # <<>>

\* Lines 20-32: the issue of a row, '' when no test matches.
issueOf(r) ==
    LET name == toLowerCase(r.store_name)
        addr == toLowerCase(r.address)
    IN  IF \/ includes(name, <<"s","a","m","p","l","e">>)
           \/ includes(name, <<"b","i","l","l"," ","b","a","c","k">>)
           \/ includes(name, <<"b","i","l","l","b","a","c","k">>)
        THEN "Samples / bill-back"
        ELSE IF includes(name, <<"b","r","e","a","k","a","g","e">>) THEN "Breakage"
        ELSE IF endsWith(name, <<"w","a","r","e","h","o","u","s","e">>) THEN "Warehouse"
        ELSE IF name = <<"s","e","n","d","s","i","p","s">> \/ name = <<"w","i","n","e",".","c","o","m">>
        THEN "Online retailer"
        ELSE IF r.address = <<>> \/ r.address = <<".">> \/ r.address = <<"T","o","t","a","l">>
        THEN "No address"
        ELSE IF /\ Len(r.address) > 0
                /\ r.address[1] \in UpperSet \cup LowerSet
                /\ includes(addr, <<" ","l","l","c">>) \/ includes(addr, <<" ","i","n","c">>)
                /\ \A k \in 1..Len(r.address) : r.address[k] \notin Digits
        THEN "Corporate name instead of street address"
        ELSE ""

\* The object pushed to flagged for rows[i], i counted from 0.
FlagEntry(i, r, text, first) ==
    [row |-> i + 2, issue |-> [text |-> text, firstRow |-> first],
     store_name |-> r.store_name, address |-> r.address, city |-> r.city,
     state |-> r.state, has_lat_lng |-> IF hasCoords(r) THEN "Yes" ELSE "No"]

\* A script that writes flagged in the order the two loops pushed to it.
SortByRow_asPushed(s) == s

\* flagged.sort((a, b) => a.row - b.row): Array.prototype.sort is stable.
SortByRow(s) ==
    LET Insert(sorted, e) ==
            LET k == Cardinality({j \in 1..Len(sorted) : sorted[j].row <= e.row})
            IN  SubSeq(sorted, 1, k) \o <<e>> \o SubSeq(sorted, k + 1, Len(sorted))
        f[n \in 0..Len(s)] == IF n = 0 THEN <<>> ELSE Insert(f[n - 1], s[n])
    IN  f[Len(s)]

\* Lines 9-11: the sheet as read, flagged empty.
ExportInit ==
    /\ rows \in StringsUpTo(ExportPool, MaxRows)
    /\ flagged = <<>>
    /\ exportI = 0
    /\ exportSeen = EmptyMap
    /\ reviewFile = [written |-> FALSE, rows |-> <<>>]
    /\ exportPc = "junk"
    /\ NormIdle
    /\ KeyIdle
    /\ MergeIdle
    /\ AuditIdle
    /\ IngestIdle
    /\ OpsIdle

\* One iteration of the junk loop (lines 13-46).
ExportFlagStep ==
    /\ exportPc = "junk"
    /\ exportI < Len(rows)
    /\ LET r == rows[exportI + 1]
           issue == issueOf(r)
       IN  flagged' = IF issue # ""
                      THEN Append(flagged, FlagEntry(exportI, r, issue, 0))
                      ELSE flagged
    /\ exportI' = exportI + 1
    /\ UNCHANGED <<rows, exportSeen, reviewFile, exportPc>>
    /\ UNCHANGED nonExportVars

\* The junk loop ends; const seen = new Map().
ExportFlagDone ==
    /\ exportPc = "junk"
    /\ exportI = Len(rows)
    /\ exportI' = 0
    /\ exportPc' = "dupes"
    /\ UNCHANGED <<rows, flagged, exportSeen, reviewFile>>
    /\ UNCHANGED nonExportVars

\* One iteration of the duplicate loop (lines 50-68).
ExportDupStep ==
    /\ exportPc = "dupes"
    /\ exportI < Len(rows)
    /\ LET r == rows[exportI + 1]
           key == detKey(r)
       IN  /\ flagged' =
                  IF key \in DOMAIN exportSeen
                  THEN Append(flagged, FlagEntry(exportI, r, "Duplicate of row",
                                                 exportSeen[key] + 2))
                  ELSE flagged
           /\ exportSeen' = seenAfter(exportSeen, key, exportI)
    /\ exportI' = exportI + 1
    /\ UNCHANGED <<rows, reviewFile, exportPc>>
    /\ UNCHANGED nonExportVars

\* Line 71: flagged.sort by row, once the duplicate loop has ended.
ExportSort ==
    /\ exportPc = "dupes"
    /\ exportI = Len(rows)
    /\ flagged' = SortByRow(flagged)
    /\ exportPc' = "write"
    /\ UNCHANGED <<rows, exportI, exportSeen, reviewFile>>
    /\ UNCHANGED nonExportVars

\* Lines 73-85: rows-to-review.csv, one line per flagged entry.
ExportWrite ==
    /\ exportPc = "write"
    /\ reviewFile' = [written |-> TRUE, rows |-> flagged]
    /\ exportPc' = "done"
    /\ UNCHANGED <<rows, flagged, exportI, exportSeen>>
    /\ UNCHANGED nonExportVars

ExportNext ==
    \/ ExportFlagStep
    \/ ExportFlagDone
    \/ ExportDupStep
    \/ ExportSort
    \/ ExportWrite

SpecExport == ExportInit /\ [][ExportNext]_vars

(***************************************************************************)
(* Properties of the duplicate detector and of the junk classifier         *)
(***************************************************************************)

Min(S) == CHOOSE x \in S : \A y \in S : x <= y

\* The rows the exporter's duplicate loop has processed so far.
DupProcessed ==
    IF exportPc \in {"idle", "junk"} THEN 0
    ELSE IF exportPc = "dupes" THEN exportI
    ELSE Len(rows)

\* The earlier rows with the detector key of row n (rows counted from 1).
EarlierSameKey(n) == {m \in 1..(n - 1) : detKey(rows[m]) = detKey(rows[n])}

\* The positions in flagged of the duplicate flags of row n.
DupFlagsOf(n) ==
    {k \in 1..Len(flagged) :
        flagged[k].issue.text = "Duplicate of row" /\ flagged[k].row = n + 1}

\* C6: row i is flagged as a duplicate iff an earlier row has its key; the
\* flag names the first such row (as sheet row j+2) and the first row of a key
\* is never flagged. So [A, A', B] flags exactly A' as a duplicate of A, and
\* [A', A, B] flags exactly A as a duplicate of A'.
C6_FirstOccurrenceWins ==
    /\ \A n \in 1..DupProcessed :
           IF EarlierSameKey(n) = {} THEN DupFlagsOf(n) = {}
           ELSE /\ Cardinality(DupFlagsOf(n)) = 1
                /\ \A k \in DupFlagsOf(n) :
                       /\ flagged[k].issue.firstRow = Min(EarlierSameKey(n)) + 1
                       /\ flagged[k].store_name = rows[n].store_name
    /\ \A k \in 1..Len(flagged) :
           flagged[k].issue.text = "Duplicate of row" =>
               flagged[k].row \in 2..(DupProcessed + 1)
    /\ (exportPc = "done" /\ rows = <<RowA, RowA2, RowB>>) =>
           flagged = <<FlagEntry(1, RowA2, "Duplicate of row", 2)>>
    /\ (exportPc = "done" /\ rows = <<RowA2, RowA, RowB>>) =>
           flagged = <<FlagEntry(1, RowA, "Duplicate of row", 2)>>

\* The exporter has finished on [A', A, B] and flagged A, sheet row 3, as a
\* duplicate of sheet row 2.
C6_Witness ==
    /\ exportPc = "done"
    /\ rows = <<RowA2, RowA, RowB>>
    /\ Len(reviewFile.rows) = 1
    /\ reviewFile.rows[1].row = 3
    /\ reviewFile.rows[1].store_name = RowA.store_name
    /\ reviewFile.rows[1].issue = [text |-> "Duplicate of row", firstRow |-> 2]

\* C7 (as claimed): two rows have the same detector key iff they have the
\* same composite key storeKey(name, city, state).
C7_DetectorKeyIsStoreKey ==
    exportPc = "done" =>
        \A i \in 1..Len(rows), j \in 1..Len(rows) :
            (detKey(rows[i]) = detKey(rows[j]))
                <=> (rowKey(rows[i]) = rowKey(rows[j]))

\* The reasons of the classifier, in the order of its rules.
RuleOrder ==
    <<"samples", "breakage", "bill_back", "own_company", "hq_address",
      "distributor_or_warehouse", "personal_name", "no_address",
      "corporate_address", "online_retailer">>

\* Rule k of the ordered list matches the row.
RuleMatches(k, r) ==
    CASE k = 1 -> rule_samples(r)
      [] k = 2 -> rule_breakage(r)
      [] k = 3 -> rule_bill_back(r)
      [] k = 4 -> rule_own_company(r)
      [] k = 5 -> rule_hq_address(r)
      [] k = 6 -> rule_distributor(r) \/ rule_warehouse(r)
      [] k = 7 -> rule_personal_name(r)
      [] k = 8 -> rule_no_address(r)
      [] k = 9 -> rule_corporate_address(r)
      [] k = 10 -> rule_online_retailer(r)

\* The reason code that a reason text of the audit script stands for.
ReasonCode(reason) ==
    CASE reason = "samples" -> "samples"
      [] reason = "breakage" -> "breakage"
      [] reason = "bill back" -> "bill_back"
      [] reason = "own company" -> "own_company"
      [] reason = "Filmland HQ address" -> "hq_address"
      [] reason = "distributor" -> "distributor_or_warehouse"
      [] reason = "warehouse" -> "distributor_or_warehouse"
      [] reason = "personal name, not a store" -> "personal_name"
      [] reason = "no address" -> "no_address"
      [] reason = "corporate address, not street" -> "corporate_address"
      [] reason = "online retailer" -> "online_retailer"
      [] OTHER -> "none"

\* The rows the audit script's junk loop has processed so far.
JunkProcessed ==
    IF auditPc = "idle" THEN 0
    ELSE IF auditPc = "junk" THEN auditI
    ELSE Len(rows)

\* C10: the classifier gives every record the reason of the earliest rule
\* that matches, in the order samples, breakage, bill_back, own_company,
\* hq_address, distributor_or_warehouse, personal_name, no_address,
\* corporate_address, online_retailer, and no reason when no rule matches.
C10_FirstRuleWins ==
    \A n \in 1..JunkProcessed :
        LET matching == {k \in DOMAIN RuleOrder : RuleMatches(k, rows[n])}
            entries == {j \in 1..Len(junk) : junk[j].row = n + 1}
        IN  IF matching = {} THEN entries = {}
            ELSE /\ Cardinality(entries) = 1
                 /\ \A j \in entries :
                        ReasonCode(junk[j].reason) = RuleOrder[Min(matching)]

\* The audit has finished on a row named 'Sample - Filmland Spirits HQ' at the
\* HQ street: the own-company and HQ rules match it and its reason is samples.
C10_Witness ==
    /\ auditPc = "done"
    /\ Len(rows) >= 1
    /\ includes(toLowerCase(rows[1].store_name), <<"s","a","m","p","l","e">>)
    /\ rule_own_company(rows[1])
    /\ rule_hq_address(rows[1])
    /\ Len(junk) >= 1
    /\ junk[1].row = 2
    /\ junk[1].reason = "samples"


(***************************************************************************)
(* Properties of the corporate-address rule and of the exporter            *)
(***************************************************************************)

\* None of the rules 1-8 of the classifier matches the row.
NoEarlierRule(r) == \A k \in 1..8 : ~RuleMatches(k, r)

\* The audit script gave sheet row n+1 the corporate-address reason.
IsCorporate(n) ==
    \E j \in 1..Len(junk) :
        /\ junk[j].row = n + 1
        /\ junk[j].reason = "corporate address, not street"

StartsWithLetter(a) == Len(a) > 0 /\ a[1] \in UpperSet \cup LowerSet

HasNoDigit(a) == \A k \in 1..Len(a) : a[k] \notin Digits

\* The three letters of pat, in any case, stand at a[k..k+2].
LettersAt(a, k, pat) ==
    /\ k >= 1
    /\ k + 2 <= Len(a)
    /\ \A d \in 0..2 : toLowerCaseChar(a[k + d]) = pat[d + 1]

\* The letters stand somewhere in the address.
LettersAnywhere(a, pat) == \E k \in 1..Len(a) : LettersAt(a, k, pat)

\* The letters stand right after a blank of the address.
LettersAfterBlank(a, pat) ==
    \E k \in 2..Len(a) : a[k - 1] = " " /\ LettersAt(a, k, pat)

\* C11 (as claimed): a record that matches none of the rules 1-8 is given
\* the corporate-address reason iff its address starts with a letter, holds
\* 'llc' or 'inc' anywhere, in any case, and holds no digit.
C11_CorporateAnywhere ==
    \A n \in 1..JunkProcessed :
        NoEarlierRule(rows[n]) =>
            (IsCorporate(n) <=>
                /\ StartsWithLetter(rows[n].address)
                /\ \/ LettersAnywhere(rows[n].address, <<"l","l","c">>)
                   \/ LettersAnywhere(rows[n].address, <<"i","n","c">>)
                /\ HasNoDigit(rows[n].address))

\* C11 (amended): a record that matches none of the rules 1-8 is given the
\* corporate-address reason iff its address starts with a letter, holds
\* 'llc' or 'inc', in any case, right after a blank, and holds no digit.
C11_CorporateAfterBlank ==
    \A n \in 1..JunkProcessed :
        NoEarlierRule(rows[n]) =>
            (IsCorporate(n) <=>
                /\ StartsWithLetter(rows[n].address)
                /\ \/ LettersAfterBlank(rows[n].address, <<"l","l","c">>)
                   \/ LettersAfterBlank(rows[n].address, <<"i","n","c">>)
                /\ HasNoDigit(rows[n].address))

\* The audit has finished on a sheet whose first row has the address
\* 'Acme Holdings LLC', given the corporate-address reason, and whose second
\* row has the address 'Lincoln Plaza', given no reason.
C11_Witness ==
    /\ auditPc = "done"
    /\ Len(rows) = 2
    /\ rows[1].address = <<"A","c","m","e"," ","H","o","l","d","i","n","g","s"," ","L","L","C">>
    /\ rows[2].address = <<"L","i","n","c","o","l","n"," ","P","l","a","z","a">>
    /\ NoEarlierRule(rows[1])
    /\ NoEarlierRule(rows[2])
    /\ IsCorporate(1)
    /\ ~IsCorporate(2)
    /\ Len(junk) = 1

\* The rows the exporter's junk loop has processed so far.
FlagProcessed ==
    IF exportPc = "idle" THEN 0
    ELSE IF exportPc = "junk" THEN exportI
    ELSE Len(rows)

\* The positions in flagged of the junk flags of row n (rows counted from 1).
JunkFlagsOf(n) ==
    {k \in 1..Len(flagged) :
        flagged[k].issue.text # "Duplicate of row" /\ flagged[k].row = n + 1}

\* The reason codes that an issue text of the exporter may stand for.
IssueCodes(text) ==
    CASE text = "Samples / bill-back" -> {"samples", "bill_back"}
      [] text = "Breakage" -> {"breakage"}
      [] text = "Warehouse" -> {"distributor_or_warehouse"}
      [] text = "Online retailer" -> {"online_retailer"}
      [] text = "No address" -> {"no_address"}
      [] text = "Corporate name instead of street address" -> {"corporate_address"}
      [] OTHER -> {}

\* C12 (as claimed): the exporter flags a row with a junk issue exactly when
\* the junk classifier returns a reason for the row, and the issue stands for
\* that reason, the reason of the first matching rule of the classifier.
C12_ExporterRunsClassifier ==
    \A n \in 1..FlagProcessed :
        IF classify_junk(rows[n]) = "" THEN JunkFlagsOf(n) = {}
        ELSE /\ Cardinality(JunkFlagsOf(n)) = 1
             /\ \A k \in JunkFlagsOf(n) :
                    ReasonCode(classify_junk(rows[n]))
                        \in IssueCodes(flagged[k].issue.text)

\* The junk flag the exporter owes sheet row n+1, and its duplicate flag.
JunkFlagFor(n) == FlagEntry(n - 1, rows[n], issueOf(rows[n]), 0)

DupFlagFor(n) ==
    FlagEntry(n - 1, rows[n], "Duplicate of row", Min(EarlierSameKey(n)) + 1)

\* How many entries of the written review list equal e.
WrittenCount(e) ==
    Cardinality({k \in 1..Len(reviewFile.rows) : reviewFile.rows[k] = e})

\* C13: the review list the exporter writes holds one entry for every junk
\* flag and one for every duplicate flag and nothing else, and its entries
\* are in non-decreasing order of sheet row (row index + 2), although the
\* junk flags were all produced before the duplicate flags.
C13_ReviewListSorted ==
    exportPc = "done" =>
        /\ reviewFile.written
        /\ \A n \in 1..Len(rows) :
               /\ issueOf(rows[n]) # "" => WrittenCount(JunkFlagFor(n)) = 1
               /\ EarlierSameKey(n) # {} => WrittenCount(DupFlagFor(n)) = 1
        /\ Len(reviewFile.rows) =
               Cardinality({n \in 1..Len(rows) : issueOf(rows[n]) # ""})
               + Cardinality({n \in 1..Len(rows) : EarlierSameKey(n) # {}})
        /\ \A k \in 1..Len(reviewFile.rows) :
               LET e == reviewFile.rows[k]
               IN  /\ e.row - 1 \in 1..Len(rows)
                   /\ \/ issueOf(rows[e.row - 1]) # "" /\ e = JunkFlagFor(e.row - 1)
                      \/ EarlierSameKey(e.row - 1) # {} /\ e = DupFlagFor(e.row - 1)
        /\ \A j, k \in 1..Len(reviewFile.rows) :
               j < k => reviewFile.rows[j].row <= reviewFile.rows[k].row

\* The exporter has finished on [A, A', 'Sample Warehouse']: the junk flag of
\* sheet row 4 was pushed before the duplicate flag of sheet row 3, and the
\* written list has the duplicate flag first.
C13_Witness ==
    /\ exportPc = "done"
    /\ Len(rows) = 3
    /\ rows[1] = RowA
    /\ rows[2] = RowA2
    /\ issueOf(rows[3]) = "Samples / bill-back"
    /\ Len(reviewFile.rows) = 2
    /\ reviewFile.rows[1] = DupFlagFor(2)
    /\ reviewFile.rows[1].row = 3
    /\ reviewFile.rows[2] = JunkFlagFor(3)
    /\ reviewFile.rows[2].row = 4

(***************************************************************************)
(* Phone normalization: cleanPhone                                         *)
(***************************************************************************)

\* String(phone).replace(/\D/g, ''), then the trailing zeros of a result of
\* more than 11 digits are removed (/0+$/), then the leading 1 of a result
\* of 11 digits.
phoneDigits(phone) ==
    LET all == SelectSeq(phone, LAMBDA c : c \in Digits)
        last == IF \E k \in 1..Len(all) : all[k] # "0"
                THEN CHOOSE k \in 1..Len(all) :
                         /\ all[k] # "0"
                         /\ \A j \in (k + 1)..Len(all) : all[j] = "0"
                ELSE 0
        unpadded == IF Len(all) > 11 THEN SubSeq(all, 1, last) ELSE all
    IN  IF Len(unpadded) = 11 /\ unpadded[1] = "1" THEN Tail(unpadded)
        ELSE unpadded

\* `(${digits.slice(0, 3)}) ${digits.slice(3, 6)}-${digits.slice(6)}`
formatPhone(digits) ==
    LET slice(a, b) == SubSeq(digits, a + 1, IF b < Len(digits) THEN b ELSE Len(digits))
    IN  <<"(">> \o slice(0, 3) \o <<")", " ">> \o slice(3, 6) \o <<"-">>
            \o slice(6, Len(digits))

\* A cleanPhone that accepts every result of ten digits or more.
cleanPhone_atLeastTen(phone) ==
    IF phone = Undefined \/ phone = <<>> \/ phone = <<"0">> \/ phone = <<"1">>
    THEN <<>>
    ELSE IF Len(phoneDigits(phone)) < 10 THEN <<>>
    ELSE formatPhone(phoneDigits(phone))

\* cleanPhone(phone); the numbers 0 and 1 of a spreadsheet cell are the
\* strings '0' and '1' here.
cleanPhone(phone) ==
    IF phone = Undefined \/ phone = <<>> \/ phone = <<"0">> \/ phone = <<"1">>
    THEN <<>>
    ELSE IF Len(phoneDigits(phone)) # 10 THEN <<>>
    ELSE formatPhone(phoneDigits(phone))

\* Longest free part of a phone cell of the model.
MaxPhoneTail == 5

\* The phone cells cleanPhone is applied to: a missing cell, cells of the
\* exported sheets, and every start below followed by a free part made of the
\* characters 0, 1, 2 and '-'.
PhoneInputs ==
    {Undefined, <<"1","2","1","2","5","5","5","1","2","3","4">>, <<"5","5","5","1","2","3","4">>, <<"2","1","2","5","5","5","1","2","3","4","0","0","0","0","0","0","0","0","0","0">>,
     <<"2","0","5","2","0","0","3","0","7","8","0","0","0","0","0","0","0","0","0","0">>, <<"2","1","2","5","5","5","1","2","3","0","0","0","0","0","0","0","0","0","0","0">>, <<"(","2","1","2",")"," ","5","5","5","-","1","2","3","4">>}
    \cup {start \o tail :
            start \in {<<>>, <<"2","1","2","5","5","5","1">>, <<"1","2","1","2","5","5","5">>},
            tail \in StringsUpTo({"0", "1", "2", "-"}, MaxPhoneTail)}

PhoneInit ==
    /\ phoneIn \in PhoneInputs
    /\ phoneOut = Undefined
    /\ phonePc = "in"
    /\ rawName = Undefined
    /\ abbrev = "undefined"
    /\ matchPc = "idle"
    /\ PivotIdle
    /\ ReconcileIdle
    /\ OpsIdle

\* const p = cleanPhone(phoneIn)
PhoneClean ==
    /\ phonePc = "in"
    /\ phoneOut' = cleanPhone(phoneIn)
    /\ phonePc' = "done"
    /\ UNCHANGED <<phoneIn, matchVars, pivotVars>>
    /\ UNCHANGED nonIngestVars

SpecPhone == PhoneInit /\ [][PhoneClean]_vars

\* The digits of the cell, in order.
DigitsOfIn == SelectSeq(phoneIn, LAMBDA c : c \in Digits)

\* s is d formatted, d being ten digits: '(ddd) ddd-dddd'.
IsFormatOf(s, d) ==
    /\ Len(d) = 10
    /\ Len(s) = 14
    /\ s[1] = "(" /\ s[5] = ")" /\ s[6] = " " /\ s[10] = "-"
    /\ <<s[2], s[3], s[4], s[7], s[8], s[9], s[11], s[12], s[13], s[14]>> = d

\* C14: cleanPhone returns '' or a string '(ddd) ddd-dddd' of exactly ten
\* digits; a cell of exactly 10 digits gives those digits formatted, a cell of
\* exactly 11 digits that start with 1 gives the last 10 formatted, and a
\* cell of fewer than 10 digits gives ''.
C14_PhoneWellFormed ==
    phonePc = "done" =>
        /\ \/ phoneOut = <<>>
           \/ /\ Len(phoneOut) = 14
              /\ phoneOut[1] = "(" /\ phoneOut[5] = ")"
              /\ phoneOut[6] = " " /\ phoneOut[10] = "-"
              /\ \A k \in (1..14) \ {1, 5, 6, 10} : phoneOut[k] \in Digits
        /\ Len(DigitsOfIn) = 10 => IsFormatOf(phoneOut, DigitsOfIn)
        /\ (Len(DigitsOfIn) = 11 /\ DigitsOfIn[1] = "1") =>
               IsFormatOf(phoneOut, Tail(DigitsOfIn))
        /\ (phoneIn = Undefined \/ Len(DigitsOfIn) < 10) => phoneOut = <<>>

\* cleanPhone has returned '(212) 555-1234' for the cell '12125551234'.
C14_Witness ==
    /\ phonePc = "done"
    /\ phoneIn = <<"1","2","1","2","5","5","5","1","2","3","4">>
    /\ phoneOut = <<"(","2","1","2",")"," ","5","5","5","-","1","2","3","4">>

\* C15 (as claimed): a 10-digit number, with or without the country code 1
\* before it, that was padded with trailing zeros to more than 11 digits
\* comes back as that 10-digit number formatted.
C15_PaddingCollapsed ==
    phonePc = "done" =>
        \A lead \in {0, 1} :
            LET d == DigitsOfIn
            IN  (/\ phoneIn # Undefined
                 /\ Len(d) > 11
                 /\ lead = 1 => d[1] = "1"
                 /\ \A k \in (lead + 11)..Len(d) : d[k] = "0")
                => IsFormatOf(phoneOut, SubSeq(d, lead + 1, lead + 10))

(***************************************************************************)
(* The product-name matcher: matchProduct                                  *)
(***************************************************************************)

\* The product catalog, in the order of its keys, and its display names.
PRODUCT_ABBREVS == <<"MM", "MMEC", "RR", "RREC", "QUAD", "MMWP">>

PRODUCT_MAP ==
    [a \in {PRODUCT_ABBREVS[k] : k \in DOMAIN PRODUCT_ABBREVS} |->
        CASE a = "MM" -> <<"M","o","o","n","l","i","g","h","t"," ","M","a","y","h","e","m","!">>
          [] a = "MMEC" -> <<"M","o","o","n","l","i","g","h","t"," ","M","a","y","h","e","m","!"," ","E","x","t","e","n","d","e","d"," ","C","u","t">>
          [] a = "RR" -> <<"R","y","e","s"," ","o","f"," ","t","h","e"," ","R","o","b","o","t","s">>
          [] a = "RREC" -> <<"R","y","e","s"," ","o","f"," ","t","h","e"," ","R","o","b","o","t"," ","E","x","t","e","n","d","e","d"," ","C","u","t">>
          [] a = "QUAD" -> <<"Q","u","a","d","r","a","f","o","r","c","e"," ","B","l","e","n","d","e","d"," ","B","o","u","r","b","o","n">>
          [] a = "MMWP" -> <<"M","o","o","n","l","i","g","h","t"," ","M","a","y","h","e","m","!"," ","2"," ","t","h","e"," ","W","h","i","t","e"," ","P","o","r","t"," ","W","o","l","f">>]

\* String.prototype.trim.
trim(s) ==
    LET ws == WhiteSpace \cup LineTerminators
    IN  IF \A k \in 1..Len(s) : s[k] \in ws THEN <<>>
        ELSE SubSeq(s,
                 CHOOSE k \in 1..Len(s) :
                     s[k] \notin ws /\ \A j \in 1..(k - 1) : s[j] \in ws,
                 CHOOSE k \in 1..Len(s) :
                     s[k] \notin ws /\ \A j \in (k + 1)..Len(s) : s[j] \in ws)

\* String.prototype.startsWith.
startsWith(s, pat) == Len(s) >= Len(pat) /\ SubSeq(s, 1, Len(pat)) = pat

\* s.replace(/\s+\d+\/\d+\s*ml$/i, '') when ml, s.replace(/\s+\d+\/\d+$/i, '')
\* otherwise. The classes of the pattern are disjoint, so the match is read
\* from the end of the string and starts at the first blank of the run before
\* the first number.
stripPackSize(s, ml) ==
    LET ws == WhiteSpace \cup LineTerminators
        \* the first index of the run of class C that ends at e (e+1: none)
        runStart(e, C) ==
            IF e < 1 THEN e + 1
            ELSE CHOOSE i \in 1..(e + 1) :
                     /\ \A k \in i..e : s[k] \in C
                     /\ i = 1 \/ s[i - 1] \notin C
        hasMl == /\ Len(s) >= 2
                 /\ toLowerCaseChar(s[Len(s) - 1]) = "m"
                 /\ toLowerCaseChar(s[Len(s)]) = "l"
        e2 == IF ml THEN runStart(Len(s) - 2, ws) - 1 ELSE Len(s)
        d2 == runStart(e2, Digits)
        d1 == runStart(d2 - 2, Digits)
        w == runStart(d1 - 1, ws)
    IN  IF /\ ml => hasMl
           /\ d2 <= e2
           /\ d2 >= 2
           /\ s[d2 - 1] = "/"
           /\ d1 <= d2 - 2
           /\ w <= d1 - 1
        THEN SubSeq(s, 1, w - 1)
        ELSE s

\* const norm = (s) => s.toLowerCase().replace(/!/g, '').replace(/\s+/g, ' ').trim()
matchProduct_norm(s) ==
    LET ws == WhiteSpace \cup LineTerminators
        noBang == SelectSeq(toLowerCase(s), LAMBDA c : c # "!")
        \* of every run of blanks, the first one stays
        stays == SelectSeq([k \in 1..Len(noBang) |-> k],
                           LAMBDA k : \/ noBang[k] \notin ws
                                      \/ k = 1
                                      \/ noBang[k - 1] \notin ws)
    IN  trim([i \in 1..Len(stays) |->
                 IF noBang[stays[i]] \in ws THEN " " ELSE noBang[stays[i]]])

\* Object.entries(PRODUCT_MAP).sort((a, b) => b[1].length - a[1].length):
\* the entries, longest display name first, equal lengths in key order, each
\* with the normFull the loop computes from its display name.
entriesLongestFirst ==
    LET Insert(sorted, a) ==
            LET k == Cardinality({j \in 1..Len(sorted) :
                        Len(PRODUCT_MAP[sorted[j]]) >= Len(PRODUCT_MAP[a])})
            IN  SubSeq(sorted, 1, k) \o <<a>> \o SubSeq(sorted, k + 1, Len(sorted))
        f[n \in 0..Len(PRODUCT_ABBREVS)] ==
            IF n = 0 THEN <<>> ELSE Insert(f[n - 1], PRODUCT_ABBREVS[n])
    IN  [k \in 1..Len(PRODUCT_ABBREVS) |->
            [abbrev |-> f[Len(PRODUCT_ABBREVS)][k],
             normFull |-> matchProduct_norm(PRODUCT_MAP[f[Len(PRODUCT_ABBREVS)][k]])]]

\* A matcher that tries the catalog in the order of its keys.
entriesFor_keyOrder(normRaw) ==
    [k \in 1..Len(PRODUCT_ABBREVS) |->
        [abbrev |-> PRODUCT_ABBREVS[k],
         normFull |-> matchProduct_norm(PRODUCT_MAP[PRODUCT_ABBREVS[k]])]]

\* The entries the loop of matchProduct goes through, in order.
entriesFor(normRaw) == entriesLongestFirst

\* matchProduct(rawName): a code of the catalog, or "null". A normRaw equal to
\* normFull also starts with it.
matchProduct(raw) ==
    IF raw = Undefined \/ raw = <<>> THEN "null"
    ELSE
    LET name == trim(stripPackSize(stripPackSize(raw, TRUE), FALSE))
        lower == toLowerCase(name)
        normRaw == matchProduct_norm(lower)
        entries == entriesFor(normRaw)
        hits == {k \in 1..Len(entries) : startsWith(normRaw, entries[k].normFull)}
    IN  IF includes(lower, <<"t","o","w","n"," ","a","t"," ","t","h","e"," ","e","n","d"," ","o","f"," ","t","o","m","o","r","r","o","w">>) THEN "null"
        ELSE IF /\ includes(normRaw, <<"m","a","y","h","e","m">>)
                /\ includes(normRaw, <<"2">>)
                /\ includes(normRaw, <<"w","h","i","t","e"," ","p","o","r","t"," ","w","o","l","f">>)
        THEN "MMWP"
        ELSE IF hits = {} THEN "null"
        ELSE entries[Min(hits)].abbrev

\* String.prototype.toUpperCase, for the letters a-z.
toUpperCase(s) ==
    [i \in 1..Len(s) |->
        IF s[i] \in LowerSet THEN Upper[CHOOSE k \in DOMAIN Lower : Lower[k] = s[i]]
        ELSE s[i]]

\* Most digits of the bottle count of a pack-size suffix of the model.
MaxPackDigits == 2

\* The pack-size suffixes of the item names: '', ' 6/750 ml', ' 12/750ML', ...
PackSuffixes ==
    {<<>>} \cup
    {<<" ">> \o n \o <<"/">> \o <<"7","5","0">> \o unit :
        n \in StringsUpTo({"1", "2", "6"}, MaxPackDigits) \ {<<>>},
        unit \in {<<" ","m","l">>, <<"M","L">>, <<>>}}

\* The item names that spell a catalog entry: its display name as it is, in
\* upper case or in lower case, with or without '!', then a pack-size suffix.
CatalogNames ==
    {[code |-> a,
      raw |-> LET b == IF bang THEN PRODUCT_MAP[a]
                       ELSE SelectSeq(PRODUCT_MAP[a], LAMBDA ch : ch # "!")
              IN  (CASE c = "upper" -> toUpperCase(b)
                     [] c = "lower" -> toLowerCase(b)
                     [] OTHER -> b) \o suffix] :
        a \in DOMAIN PRODUCT_MAP,
        bang \in BOOLEAN,
        c \in {"same", "upper", "lower"},
        suffix \in PackSuffixes}

\* The other item names of the model: the sold-out product, alone, in a
\* longer name and after a catalog name; names outside the catalog; a name
\* with blanks around it; an empty and a missing cell.
OtherNames ==
    {<<"T","o","w","n"," ","a","t"," ","t","h","e"," ","E","n","d"," ","o","f"," ","T","o","m","o","r","r","o","w">>,
     <<"T","O","W","N"," ","A","T"," ","T","H","E"," ","E","N","D"," ","O","F"," ","T","O","M","O","R","R","O","W"," ","6","/","7","5","0"," ","m","l">>,
     <<"M","o","o","n","l","i","g","h","t"," ","M","a","y","h","e","m","!"," ","T","o","w","n"," ","a","t"," ","t","h","e"," ","E","n","d"," ","o","f"," ","T","o","m","o","r","r","o","w"," ","6","/","7","5","0"," ","m","l">>,
     <<"M","o","o","n","l","i","g","h","t"," ","M","a","y","h","e","m"," ","2"," ","W","h","i","t","e"," ","P","o","r","t"," ","W","o","l","f"," ","6","/","7","5","0"," ","m","l">>,
     <<"R","y","e","s"," ","o","f"," ","t","h","e"," ","R","o","b","o","t","s"," ","S","i","n","g","l","e"," ","B","a","r","r","e","l"," ","6","/","7","5","0"," ","m","l">>,
     <<"R","y","e","s"," ","o","f"," ","t","h","e"," ","R","o","b","o","t">>,
     <<"S","o","m","e"," ","O","t","h","e","r"," ","W","h","i","s","k","e","y"," ","1","2","/","7","5","0"," ","m","l">>,
     <<" "," ","Q","u","a","d","r","a","f","o","r","c","e"," "," "," ","B","l","e","n","d","e","d"," "," ","B","o","u","r","b","o","n"," ","6","/","7","5","0"," ","m","l"," ">>,
     <<"6","/","7","5","0"," ","m","l">>,
     <<"T","o","t","a","l">>,
     <<>>, Undefined}

MatchInit ==
    /\ rawName \in {v.raw : v \in CatalogNames} \cup OtherNames
    /\ abbrev = "undefined"
    /\ matchPc = "in"
    /\ PhoneIdle
    /\ PivotIdle
    /\ ReconcileIdle
    /\ OpsIdle

\* const abbrev = matchProduct(rawName)
MatchApply ==
    /\ matchPc = "in"
    /\ abbrev' = matchProduct(rawName)
    /\ matchPc' = "done"
    /\ UNCHANGED <<rawName, phoneVars, pivotVars>>
    /\ UNCHANGED nonIngestVars

SpecMatch == MatchInit /\ [][MatchApply]_vars

\* C19: an item name that is the display name of a catalog entry, in any
\* letter case, with or without '!', with or without a pack-size suffix, is
\* matched to the code of that entry, and so never to the code of an entry
\* whose display name is a prefix of it; an item name that holds the name of
\* the sold-out product is matched to no code.
C19_MatchesOwnCode ==
    matchPc = "done" =>
        /\ \A v \in CatalogNames : v.raw = rawName => abbrev = v.code
        /\ (/\ rawName # Undefined
            /\ includes(toLowerCase(rawName), <<"t","o","w","n"," ","a","t"," ","t","h","e"," ","e","n","d"," ","o","f"," ","t","o","m","o","r","r","o","w">>))
           => abbrev = "null"

\* matchProduct has returned MMEC for 'MOONLIGHT MAYHEM EXTENDED CUT 12/750 ml',
\* a name that starts with the display name of MM.
C19_Witness ==
    /\ matchPc = "done"
    /\ rawName = <<"M","O","O","N","L","I","G","H","T"," ","M","A","Y","H","E","M"," ","E","X","T","E","N","D","E","D"," ","C","U","T"," ","1","2","/","7","5","0"," ","m","l">>
    /\ startsWith(matchProduct_norm(rawName), matchProduct_norm(PRODUCT_MAP["MM"]))
    /\ abbrev = "MMEC"

(***************************************************************************)
(* The pivot script: pivotRawData()                                        *)
(***************************************************************************)

\* `${address}|${city}|${state}|${zip}`.toLowerCase().trim()
createStoreKey(address, city, state, zip) ==
    trim(toLowerCase(address \o <<"|">> \o city \o <<"|">> \o state
                     \o <<"|">> \o zip))

\* A data row of a raw sheet as readXlsx returns it (defval: '').
RawRow(address, city, state, dist, zip, name, item, phone) ==
    [Address |-> address, City |-> city, State |-> state, DistState |-> dist,
     ZipCode |-> zip, RetailAccounts |-> name, ItemNames |-> item,
     Phone |-> phone]

\* Longest input of the pivot: the rows of the two raw sheets together.
MaxRaw == 3

\* The rows the two raw sheets may hold.
RawPool ==
    { RawRow(<<"1"," ","M","a","i","n"," ","S","t">>, <<"L","A">>, <<"C","A">>, <<>>, <<"9","0","0","0","1">>,
             <<"J","o","e","'","s"," ","W","i","n","e">>, <<"M","o","o","n","l","i","g","h","t"," ","M","a","y","h","e","m"," ","6","/","7","5","0"," ","m","l">>, <<"1","2","1","2","5","5","5","1","2","3","4">>),
      \* the same place in other letter case, the state in 'Dist. STATE'
      RawRow(<<"1"," ","M","A","I","N"," ","S","T"," ">>, <<"l","a">>, <<>>, <<"c","a">>, <<"9","0","0","0","1">>,
             <<"J","O","E","S"," ","W","I","N","E">>, <<"R","y","e","s"," ","o","f"," ","t","h","e"," ","R","o","b","o","t","s"," ","6","/","7","5","0"," ","m","l">>, <<"5","5","5","1","2","3","4">>),
      \* the same place with a full stop
      RawRow(<<"1"," ","M","a","i","n"," ","S","t",".">>, <<"L","A">>, <<"C","A">>, <<>>, <<"9","0","0","0","1">>,
             <<"J","o","e","'","s"," ","W","i","n","e">>, <<"Q","u","a","d","r","a","f","o","r","c","e"," ","B","l","e","n","d","e","d"," ","B","o","u","r","b","o","n">>, <<>>),
      \* no account name, a product outside the catalog
      RawRow(<<"1"," ","M","a","i","n"," ","S","t">>, <<"L","A">>, <<"C","A">>, <<>>, <<"9","0","0","0","1">>,
             <<>>, <<"S","o","m","e"," ","O","t","h","e","r"," ","W","h","i","s","k","e","y"," ","1","2","/","7","5","0"," ","m","l">>, <<"(","2","1","2",")"," ","5","5","5","-","9","9","9","9">>),
      \* a subtotal line
      RawRow(<<>>, <<>>, <<>>, <<>>, <<>>,
             <<"T","o","t","a","l">>, <<>>, <<>>),
      \* a subtotal line that repeats the address columns
      RawRow(<<"1"," ","M","a","i","n"," ","S","t">>, <<"L","A">>, <<"C","A">>, <<>>, <<"9","0","0","0","1">>,
             <<"T","o","t","a","l">>, <<"M","o","o","n","l","i","g","h","t"," ","M","a","y","h","e","m","!"," ","E","x","t","e","n","d","e","d"," ","C","u","t">>, <<"3","1","0","5","5","5","0","0","0","0">>),
      \* no state
      RawRow(<<"2"," ","O","a","k"," ","A","v","e">>, <<"L","A">>, <<>>, <<>>, <<>>,
             <<"O","a","k"," ","B","a","r">>, <<"M","o","o","n","l","i","g","h","t"," ","M","a","y","h","e","m","!"," ","E","x","t","e","n","d","e","d"," ","C","u","t">>,
             <<"2","1","2","5","5","5","1","2","3","4","0","0","0","0","0","0","0","0","0","0">>),
      \* no city
      RawRow(<<"2"," ","O","a","k"," ","A","v","e">>, <<>>, <<"C","A">>, <<>>, <<"9","0","0","0","2">>,
             <<"O","a","k"," ","B","a","r">>, <<"R","y","e","s"," ","o","f"," ","t","h","e"," ","R","o","b","o","t"," ","E","x","t","e","n","d","e","d"," ","C","u","t">>, <<"3","1","0","5","5","5","1","1","1","1">>) }

\* allRows: the off-premise rows, then the on-premise rows, with their tag.
allRows ==
    [k \in 1..(Len(offPremRows) + Len(onPremRows)) |->
        IF k <= Len(offPremRows)
        THEN [row |-> offPremRows[k], type |-> "Off-Premise"]
        ELSE [row |-> onPremRows[k - Len(offPremRows)], type |-> "On-Premise"]]

\* The constants address, city, state, zip, storeName and itemName of one
\* iteration: String(cell || '').trim().
cellsOf(row) ==
    [address |-> trim(row.Address),
     city |-> trim(row.City),
     state |-> trim(IF row.State # <<>> THEN row.State ELSE row.DistState),
     zip |-> trim(row.ZipCode),
     storeName |-> trim(row.RetailAccounts),
     itemName |-> trim(row.ItemNames)]

\* if (!address || !city || address === 'Total' || city === 'Total'
\*     || storeName === 'Total') continue;
skipRow(c) ==
    \/ c.address = <<>>
    \/ c.city = <<>>
    \/ c.address = <<"T","o","t","a","l">>
    \/ c.city = <<"T","o","t","a","l">>
    \/ c.storeName = <<"T","o","t","a","l">>

\* The entry storesMap.set creates for a key.
newStore(key, c, row, type) ==
    [key |-> key, store_name |-> c.storeName, address |-> c.address,
     city |-> c.city, state |-> c.state, zip |-> c.zip,
     phone |-> cleanPhone(row.Phone), type |-> type, lat |-> <<>>, lng |-> <<>>,
     products |-> {}]

\* A pivot that sets the entry of a key whether the map has the key or not.
entryFor_alwaysSet(map, key, c, row, type) ==
    IF \E j \in 1..Len(map) : map[j].key = key
    THEN [j \in 1..Len(map) |->
            IF map[j].key = key THEN newStore(key, c, row, type) ELSE map[j]]
    ELSE Append(map, newStore(key, c, row, type))

\* if (!storesMap.has(storeKey)) storesMap.set(storeKey, {...}): a Map keeps
\* its keys in the order of their insertion.
entryFor(map, key, c, row, type) ==
    IF \E j \in 1..Len(map) : map[j].key = key THEN map
    ELSE Append(map, newStore(key, c, row, type))

\* The body of the loop for a row that is not skipped.
aggregate(map, row, type) ==
    LET c == cellsOf(row)
        key == createStoreKey(c.address, c.city, c.state, c.zip)
        withEntry == entryFor(map, key, c, row, type)
        j == CHOOSE i \in 1..Len(withEntry) : withEntry[i].key = key
        store == withEntry[j]
        p == cleanPhone(row.Phone)
        found == matchProduct(c.itemName)
    IN  [withEntry EXCEPT ![j] =
            [store EXCEPT
                !.phone = IF store.phone = <<>> /\ p # <<>> THEN p ELSE store.phone,
                !.products = IF found # "null" THEN store.products \cup {found}
                             ELSE store.products]]

\* Both sheets have been read and their row counts logged.
PivotInit ==
    /\ \E all \in StringsUpTo(RawPool, MaxRaw) :
           \E k \in 0..Len(all) :
               /\ offPremRows = SubSeq(all, 1, k)
               /\ onPremRows = SubSeq(all, k + 1, Len(all))
    /\ storesMap = <<>>
    /\ pivotI = 0
    /\ importFile = [written |-> FALSE, rows |-> <<>>]
    /\ pivotLog = << <<"Off-Premise raw rows", Len(offPremRows)>>,
                     <<"On-Premise raw rows", Len(onPremRows)>> >>
    /\ pivotPc = "rows"
    /\ PhoneIdle
    /\ MatchIdle
    /\ ReconcileIdle
    /\ OpsIdle

\* One iteration of for (const row of allRows).
PivotRow ==
    /\ pivotPc = "rows"
    /\ pivotI < Len(allRows)
    /\ LET r == allRows[pivotI + 1]
       IN  storesMap' = IF skipRow(cellsOf(r.row)) THEN storesMap
                        ELSE aggregate(storesMap, r.row, r.type)
    /\ pivotI' = pivotI + 1
    /\ UNCHANGED <<offPremRows, onPremRows, importFile, pivotLog, pivotPc>>
    /\ UNCHANGED <<phoneVars, matchVars>>
    /\ UNCHANGED nonIngestVars

\* After the loop: the store count is logged, initial-import.csv is written
\* with one line per store (the fields before CSV quoting, a TRUE/FALSE column
\* per catalog code), and the product counts are logged.
PivotWrite ==
    /\ pivotPc = "rows"
    /\ pivotI = Len(allRows)
    /\ importFile' =
           [written |-> TRUE,
            rows |-> [j \in 1..Len(storesMap) |->
                        [store_name |-> storesMap[j].store_name,
                         address |-> storesMap[j].address,
                         city |-> storesMap[j].city,
                         state |-> storesMap[j].state,
                         zip |-> storesMap[j].zip,
                         phone |-> storesMap[j].phone,
                         type |-> storesMap[j].type,
                         lat |-> storesMap[j].lat,
                         lng |-> storesMap[j].lng,
                         productCols |->
                             [k \in 1..Len(PRODUCT_ABBREVS) |->
                                 IF PRODUCT_ABBREVS[k] \in storesMap[j].products
                                 THEN "TRUE" ELSE "FALSE"]]]]
    /\ pivotLog' =
           pivotLog
           \o << <<"unique stores", Len(storesMap)>>,
                 <<"Total stores", Len(storesMap)>> >>
           \o [k \in 1..Len(PRODUCT_ABBREVS) |->
                 <<PRODUCT_ABBREVS[k],
                   Cardinality({j \in 1..Len(storesMap) :
                       PRODUCT_ABBREVS[k] \in storesMap[j].products})>>]
    /\ pivotPc' = "done"
    /\ UNCHANGED <<offPremRows, onPremRows, storesMap, pivotI>>
    /\ UNCHANGED <<phoneVars, matchVars>>
    /\ UNCHANGED nonIngestVars

PivotNext ==
    \/ PivotRow
    \/ PivotWrite

SpecPivot == PivotInit /\ [][PivotNext]_vars

(***************************************************************************)
(* Properties of the pivot                                                 *)
(***************************************************************************)

\* The rows the loop of the pivot has gone through so far.
PivotProcessed ==
    IF pivotPc = "idle" THEN 0
    ELSE IF pivotPc = "rows" THEN pivotI
    ELSE Len(allRows)

\* The cells and the pivot key of row n of allRows (counted from 1).
CellsAt(n) == cellsOf(allRows[n].row)

PivotKeyAt(n) ==
    createStoreKey(CellsAt(n).address, CellsAt(n).city, CellsAt(n).state,
                   CellsAt(n).zip)

\* The processed rows that were not skipped, and those of them with a key.
KeptRows == {n \in 1..PivotProcessed : ~skipRow(CellsAt(n))}

GroupOf(key) == {n \in KeptRows : PivotKeyAt(n) = key}

\* C16: the finished pivot holds exactly one store record per distinct
\* address+city+state+zip key of the rows that were not skipped, in the order
\* in which the keys first occur; the products of a record are the catalog
\* codes recognised in the rows of its group, all among the six codes, and its
\* name is the name of the first row of the group; the written file has one
\* line per record, in the same order.
C16_OneRecordPerKey ==
    pivotPc = "done" =>
    /\ LET cells == [n \in 1..Len(allRows) |-> CellsAt(n)]
           keyAt == [n \in 1..Len(allRows) |->
                       createStoreKey(cells[n].address, cells[n].city,
                                      cells[n].state, cells[n].zip)]
           kept == {n \in 1..Len(allRows) : ~skipRow(cells[n])}
           first == [j \in 1..Len(storesMap) |->
                       Min({n \in kept : keyAt[n] = storesMap[j].key}
                           \cup {Len(allRows) + 1})]
       IN  /\ Len(storesMap) = Cardinality({keyAt[n] : n \in kept})
           /\ \A j \in 1..Len(storesMap) :
                  /\ first[j] <= Len(allRows)
                  /\ \A k \in (j + 1)..Len(storesMap) : first[j] < first[k]
                  /\ storesMap[j].products =
                         {matchProduct(cells[n].itemName) :
                             n \in {m \in kept : keyAt[m] = storesMap[j].key}}
                         \ {"null"}
                  /\ storesMap[j].products \subseteq DOMAIN PRODUCT_MAP
                  /\ storesMap[j].store_name = cells[first[j]].storeName
    /\ importFile.written
    /\ Len(importFile.rows) = Len(storesMap)
    /\ \A j \in 1..Len(storesMap) :
           /\ importFile.rows[j].store_name = storesMap[j].store_name
           /\ importFile.rows[j].address = storesMap[j].address
           /\ \A k \in 1..Len(PRODUCT_ABBREVS) :
                  (importFile.rows[j].productCols[k] = "TRUE")
                      <=> (PRODUCT_ABBREVS[k] \in storesMap[j].products)

\* The pivot has finished on two rows of one address, 'Joe's Wine' with
\* Moonlight Mayhem and then 'JOES WINE' with Ryes of the Robots: one record,
\* named 'Joe's Wine', with the products MM and RR.
C16_Witness ==
    /\ pivotPc = "done"
    /\ Len(allRows) = 2
    /\ CellsAt(1).storeName = <<"J","o","e","'","s"," ","W","i","n","e">>
    /\ CellsAt(2).storeName = <<"J","O","E","S"," ","W","I","N","E">>
    /\ PivotKeyAt(1) = PivotKeyAt(2)
    /\ Len(importFile.rows) = 1
    /\ importFile.rows[1].store_name = <<"J","o","e","'","s"," ","W","i","n","e">>
    /\ storesMap[1].products = {"MM", "RR"}

\* The first value of a field that is not empty among the rows of a group,
\* '' when every value is empty.
FirstNonEmpty(g, field(_)) ==
    IF \A n \in g : field(n) = <<>> THEN <<>>
    ELSE field(Min({n \in g : field(n) # <<>>}))

\* C17 (as claimed): the name of a record is the first non-empty account
\* name, its phone the first non-empty normalised phone and its type the first
\* non-empty type among the rows of its group, in input order.
C17_FirstNonEmptyFields ==
    \A j \in 1..Len(storesMap) :
        LET g == GroupOf(storesMap[j].key)
            nameOf(n) == CellsAt(n).storeName
            phoneOf(n) == cleanPhone(allRows[n].row.Phone)
        IN  /\ storesMap[j].store_name = FirstNonEmpty(g, nameOf)
            /\ storesMap[j].phone = FirstNonEmpty(g, phoneOf)
            /\ storesMap[j].type = allRows[Min(g)].type

\* C18 (as claimed): two rows whose address, city, state and zip differ only
\* in letter case, punctuation or whitespace have the same pivot key and are
\* aggregated into the same store record.
C18_KeyIgnoresPunctuation ==
    \A m \in KeptRows, n \in KeptRows :
        (/\ norm(CellsAt(m).address) = norm(CellsAt(n).address)
         /\ norm(CellsAt(m).city) = norm(CellsAt(n).city)
         /\ norm(CellsAt(m).state) = norm(CellsAt(n).state)
         /\ norm(CellsAt(m).zip) = norm(CellsAt(n).zip))
        => /\ PivotKeyAt(m) = PivotKeyAt(n)
           /\ Cardinality({j \in 1..Len(storesMap) :
                  storesMap[j].key \in {PivotKeyAt(m), PivotKeyAt(n)}}) = 1

\* The row lacks an address, a city or a state, or holds the word 'Total' in
\* its address, city or account name.
Malformed(c) ==
    \/ c.address = <<>> \/ c.city = <<>> \/ c.state = <<>>
    \/ <<"T","o","t","a","l">> \in {c.address, c.city, c.storeName}

\* C20 (as claimed): an iteration on a row that lacks a required address
\* field or carries the 'Total' sentinel leaves the store records as they are,
\* and logs the row as skipped.
C20_MalformedSkippedAndLogged ==
    [][(/\ pivotPc = "rows"
        /\ pivotI < Len(allRows)
        /\ pivotI' = pivotI + 1
        /\ Malformed(CellsAt(pivotI + 1)))
       => /\ storesMap' = storesMap
          /\ Len(pivotLog') > Len(pivotLog)]_vars

\* ---------------------------------------------------------------------------
\* The publish step: the curated sheet's CSV export becomes data/stores.json.
\* ---------------------------------------------------------------------------

\* parseFloat: leading white space is skipped, then the longest prefix that
\* is a decimal literal (or Infinity) with an optional sign is read; what
\* follows it is ignored.  The number is represented by the numeral read,
\* and the absence of one by NaN.
parseFloat(s) ==
    LET run(t, i, S) ==
            CHOOSE n \in 0..(Len(t) + 1 - i) :
                /\ \A k \in i..(i + n - 1) : t[k] \in S
                /\ (i + n > Len(t) \/ t[i + n] \notin S)
        ws == run(s, 1, WhiteSpace \cup LineTerminators)
        t == SubSeq(s, ws + 1, Len(s))
        sign == IF t # <<>> /\ t[1] \in {"+", "-"} THEN 1 ELSE 0
        int == run(t, sign + 1, Digits)
        dot == IF sign + int + 1 <= Len(t) /\ t[sign + int + 1] = "." THEN 1 ELSE 0
        frac == IF dot = 1 THEN run(t, sign + int + 2, Digits) ELSE 0
        mant == sign + int + dot + frac
        esign == IF mant + 2 <= Len(t) /\ t[mant + 2] \in {"+", "-"} THEN 1 ELSE 0
        edigits == IF mant + 1 <= Len(t) /\ t[mant + 1] \in {"e", "E"}
                   THEN run(t, mant + 2 + esign, Digits) ELSE 0
        exp == IF edigits > 0 THEN 1 + esign + edigits ELSE 0
        inf == <<"I","n","f","i","n","i","t","y">>
    IN  IF Len(t) >= sign + Len(inf) /\ SubSeq(t, sign + 1, sign + Len(inf)) = inf
        THEN SubSeq(t, 1, sign + Len(inf))
        ELSE IF int + frac = 0 THEN <<"NaN">>
        ELSE SubSeq(t, 1, mant + exp)

MaxSheetRows == 2

\* Rows of the CSV export as csv-parse returns them (columns: true,
\* trim: true): one record per line, a missing column reads as undefined.
CsvPool ==
    LET flags(on) == [a \in DOMAIN PRODUCT_MAP |->
                        IF a \in DOMAIN on THEN on[a] ELSE <<"F","A","L","S","E">>]
        row(n, web, la, ln, on) ==
            [store_name |-> n, address |-> <<"1"," ","M","a","i","n"," ","S","t">>, city |-> <<"L","A">>,
             state |-> <<"C","A">>, zip |-> <<"9","0","0","0","1">>, phone |-> <<>>,
             website |-> web, type |-> <<"O","f","f","-","P","r","e","m","i","s","e">>, lat |-> la,
             lng |-> ln, flags |-> flags(on)]
    IN  { row(<<"A">>, <<"a",".","c","o">>, <<"3","4",".","0","5">>, <<"-","1","1","8",".","2","4">>,
              [MMWP |-> <<"T","R","U","E">>, MM |-> <<"t","r","u","e">>]),
          row(<<"B">>, <<>>, <<>>, <<>>, [QUAD |-> <<"T","R","U","E">>]),
          row(<<"C">>, Undefined, <<"3","4",".","1">>, <<"a","b","c">>, [RR |-> <<"T","R","U","E">>]),
          row(<<"D">>, Undefined, <<".","5">>, <<"7",".">>,
              [RREC |-> <<"T","r","u","e">>, RR |-> <<"T">>, MMEC |-> <<>>]),
          row(<<>>, <<>>, <<"3","4",".","0","5","N">>, <<"1","e","2">>, [MM |-> Undefined]),
          row(<<"F">>, <<>>, Undefined, <<"-","1","1","8",".","2","4">>, [MM |-> <<"T","R","U","E">>]),
          row(<<"G">>, <<>>, <<"-","I","n","f","i","n","i","t","y">>, <<"-",".">>, [QUAD |-> <<"T","R","U","E">>]),
          row(<<"H">>, <<>>, <<"I","n","f","i","n","i","t","y">>, <<"+","0">>, [QUAD |-> <<"1">>]) }

\* The object the publish step builds for one row (the .map callback), as
\* JSON.stringify writes it: an infinite number is written as null.
storeObject(row) ==
    LET orEmpty(v) == IF v = Undefined \/ v = <<>> THEN <<>> ELSE v
        marked(a) == row.flags[a] \notin {Undefined, <<>>}
                     /\ toUpperCase(row.flags[a]) = <<"T","R","U","E">>
        codes == SelectSeq(PRODUCT_ABBREVS, marked)
        json(x) == IF x \in {<<"I","n","f","i","n","i","t","y">>, <<"+","I","n","f","i","n","i","t","y">>, <<"-","I","n","f","i","n","i","t","y">>}
                   THEN <<"null">> ELSE x
    IN  [name |-> orEmpty(row.store_name),
         address |-> orEmpty(row.address),
         city |-> orEmpty(row.city),
         state |-> orEmpty(row.state),
         zip |-> orEmpty(row.zip),
         phone |-> orEmpty(row.phone),
         website |-> orEmpty(row.website),
         type |-> orEmpty(row.type),
         lat |-> json(parseFloat(row.lat)),
         lng |-> json(parseFloat(row.lng)),
         products |-> [k \in DOMAIN codes |-> PRODUCT_MAP[codes[k]]]]

\* The .filter callback: both coordinates must not be NaN.
hasValidCoordinates_latOnly(row) ==
    parseFloat(row.lat) # <<"NaN">>

hasValidCoordinates(row) ==
    parseFloat(row.lat) # <<"NaN">> /\ parseFloat(row.lng) # <<"NaN">>

PublishInit ==
    /\ sheetCsvUrl \in {Undefined, <<>>, <<"h","t","t","p","s",":","/","/","s","h","e","e","t","/","e","x","p","o","r","t",".","c","s","v">>}
    /\ response \in {"ok", "not ok", "rejected"}
    /\ sheetCsv \in StringsUpTo(CsvPool, MaxSheetRows)
    /\ httpRequests = 0
    /\ storesJson = [written |-> FALSE, rows |-> <<>>]
    /\ exitCode = "none"
    /\ publishPc = "start"
    /\ ReconcileIdle
    /\ IngestIdle
    /\ MacroIdle
    /\ ClientIdle

\* Module top level: without SHEET_CSV_URL the process exits with status 1
\* before fetchStores is called.
PublishCheckConfig_carryOn ==
    /\ publishPc = "start"
    /\ publishPc' = "fetch"
    /\ UNCHANGED <<sheetCsvUrl, response, sheetCsv, httpRequests, storesJson,
                   exitCode>>
    /\ UNCHANGED <<nonOpsVars, macroVars, clientVars>>

PublishCheckConfig ==
    /\ publishPc = "start"
    /\ IF sheetCsvUrl = Undefined \/ sheetCsvUrl = <<>>
       THEN exitCode' = "1" /\ publishPc' = "exited"
       ELSE exitCode' = exitCode /\ publishPc' = "fetch"
    /\ UNCHANGED <<sheetCsvUrl, response, sheetCsv, httpRequests, storesJson>>
    /\ UNCHANGED <<nonOpsVars, macroVars, clientVars>>

\* fetchStores up to the response check: one request; a rejected fetch or a
\* response that is not ok ends in the catch block, which exits with 1.
PublishFetch ==
    /\ publishPc = "fetch"
    /\ httpRequests' = httpRequests + 1
    /\ IF response = "ok"
       THEN exitCode' = exitCode /\ publishPc' = "transform"
       ELSE exitCode' = "1" /\ publishPc' = "exited"
    /\ UNCHANGED <<sheetCsvUrl, response, sheetCsv, storesJson>>
    /\ UNCHANGED <<nonOpsVars, macroVars, clientVars>>

\* The rest of fetchStores: parse, filter, map, write.
PublishWrite ==
    /\ publishPc = "transform"
    /\ LET kept == SelectSeq(sheetCsv, hasValidCoordinates)
       IN  storesJson' = [written |-> TRUE,
                          rows |-> [k \in DOMAIN kept |-> storeObject(kept[k])]]
    /\ exitCode' = "0"
    /\ publishPc' = "exited"
    /\ UNCHANGED <<sheetCsvUrl, response, sheetCsv, httpRequests>>
    /\ UNCHANGED <<nonOpsVars, macroVars, clientVars>>

PublishNext ==
    \/ PublishCheckConfig
    \/ PublishFetch
    \/ PublishWrite

SpecPublish == PublishInit /\ [][PublishNext]_vars

\* ---------------------------------------------------------------------------
\* Claims about the publish step
\* ---------------------------------------------------------------------------

\* The catalog display names of the product columns of a sheet row that are
\* marked TRUE (in any letter case), in catalog order.
MarkedNames(row) ==
    LET on == {k \in DOMAIN PRODUCT_ABBREVS :
                  /\ row.flags[PRODUCT_ABBREVS[k]] # Undefined
                  /\ toLowerCase(row.flags[PRODUCT_ABBREVS[k]]) = <<"t","r","u","e">>}
    IN  [n \in 1..Cardinality(on) |->
            PRODUCT_MAP[PRODUCT_ABBREVS[
                CHOOSE k \in on : Cardinality({j \in on : j < k}) = n - 1]]]

\* A cell from which a number can be read: an optional sign followed by a
\* digit, by a point and a digit, or by Infinity.
ReadsAsNumber(s) ==
    /\ s # Undefined
    /\ LET t == IF s # <<>> /\ s[1] \in {"+", "-"} THEN Tail(s) ELSE s
       IN  \/ t # <<>> /\ t[1] \in Digits
           \/ Len(t) >= 2 /\ t[1] = "." /\ t[2] \in Digits
           \/ Len(t) >= 8 /\ SubSeq(t, 1, 8) = <<"I","n","f","i","n","i","t","y">>

\* The positions of the sheet rows with two readable coordinates.
PublishableRows ==
    {i \in DOMAIN sheetCsv :
        ReadsAsNumber(sheetCsv[i].lat) /\ ReadsAsNumber(sheetCsv[i].lng)}

\* The sheet row from which the k-th published object must come.
SourceOf(k) ==
    sheetCsv[CHOOSE i \in PublishableRows :
                Cardinality({j \in PublishableRows : j < i}) = k - 1]

\* C21: every published object has exactly the ten fields name, address,
\* city, state, zip, phone, type, lat, lng, products, and its products are
\* the display names of the columns marked TRUE, in catalog order.
C21_ExactlyTenFieldsAndNames ==
    storesJson.written =>
        \A k \in DOMAIN storesJson.rows :
            /\ DOMAIN storesJson.rows[k] =
                   {"name", "address", "city", "state", "zip", "phone",
                    "type", "lat", "lng", "products"}
            /\ storesJson.rows[k].products = MarkedNames(SourceOf(k))

\* C22: when SHEET_CSV_URL is not configured, the run has, from its first
\* step on, exited with status 1, sent no request and written no file.
C22_NoUrlExitsFirst ==
    (publishPc \notin {"idle", "start"} /\ sheetCsvUrl \in {Undefined, <<>>}) =>
        /\ publishPc = "exited"
        /\ exitCode = "1"
        /\ httpRequests = 0
        /\ ~storesJson.written

C22_Witness ==
    /\ publishPc = "exited"
    /\ sheetCsvUrl = Undefined
    /\ sheetCsv # <<>>

\* C28: a finished publish wrote one object per sheet row with two readable
\* coordinates, in sheet order, and nothing else; a run whose download
\* failed wrote no file.
C28_ExactlyGeocodedRows ==
    /\ (publishPc = "exited" /\ exitCode = "0") =>
           /\ storesJson.written
           /\ Len(storesJson.rows) = Cardinality(PublishableRows)
           /\ \A k \in DOMAIN storesJson.rows :
                  /\ storesJson.rows[k].name = SourceOf(k).store_name
                  /\ storesJson.rows[k].products = MarkedNames(SourceOf(k))
    /\ (publishPc \in {"start", "fetch", "transform"} \/ exitCode = "1") =>
           ~storesJson.written
    /\ (publishPc = "exited" /\ response # "ok") => exitCode = "1"

C28_Witness ==
    /\ publishPc = "exited"
    /\ exitCode = "0"
    /\ Len(storesJson.rows) = 1
    /\ Len(sheetCsv) = 2
    /\ ~ReadsAsNumber(sheetCsv[1].lng)

\* ---------------------------------------------------------------------------
\* The spreadsheet macros (Apps Script) that run inside the curated sheet.
\* The sheet has the columns store_name, address, city, state, zip, lat, lng
\* and normalized; a cell is the text it shows, the boolean true is written
\* "<true>", and the number zero is the numeral 0.
\* ---------------------------------------------------------------------------

MaxMacroRuns == 2

\* Data rows the sheet may hold.
MacroSheetPool ==
    LET row(n, a, c, z, la, ln, m) ==
            [store_name |-> n, address |-> a, city |-> c, state |-> <<"C","A">>,
             zip |-> z, lat |-> la, lng |-> ln, normalized |-> m]
    IN  { row(<<"A","c","m","e">>, <<"1"," ","m","a","i","n"," ","s","t">>, <<"l","a">>, <<>>, <<>>, <<>>, <<>>),
          row(<<"C","o","r","k">>, <<"3"," ","E","q","u","a","t","o","r"," ","R","d">>, <<"Q","u","i","t","o">>, <<>>,
              <<"0">>, <<"-","7","8",".","5">>, <<"T","R","U","E">>),
          row(<<"A","c","m","e">>, <<"A","c","m","e"," ","L","L","C">>, <<"l","a">>, <<>>,
              <<"3","4",".","0","5">>, <<"-","1","1","8",".","2","4">>, <<"<true>">>),
          row(<<"D","r","a","m">>, <<"5"," ","E","l","m"," ","S","t">>, <<>>, <<>>, <<>>, <<>>, <<>>) }

\* What Maps.newGeocoder().geocode(query) can do: throw, return no result,
\* or return a first result, given here by the parts the macros extract from
\* its address_components and by its geometry.location.
GeocodeOutcomes ==
    { [status |-> "throws"],
      [status |-> "ZERO_RESULTS"],
      [status |-> "OK", address |-> <<"1"," ","M","a","i","n"," ","S","t">>, city |-> <<"L","o","s"," ","A","n","g","e","l","e","s">>,
       state |-> <<"C","A">>, zip |-> <<"9","0","0","0","1">>, lat |-> <<"3","4",".","0","5">>,
       lng |-> <<"-","1","1","8",".","2","4">>],
      [status |-> "OK", address |-> <<>>, city |-> <<"Q","u","i","t","o">>, state |-> <<>>,
       zip |-> <<>>, lat |-> <<"0">>, lng |-> <<"-","7","8",".","5">>] }

\* The query a pass sends for a row of values, or the empty string when the
\* row is skipped without a request.
queryOf(pass, row) ==
    LET truthy(c) == c # <<>> /\ c # <<"0">>
        fullAddress == row.address \o <<","," ">> \o row.city \o <<","," ">> \o row.state
                       \o (IF truthy(row.zip) THEN <<" ">> \o row.zip ELSE <<>>)
        address == trim(row.address)
        addrLower == toLowerCase(address)
    IN  CASE pass = "normalize" ->
                IF row.normalized \in {<<"<true>">>, <<"T","R","U","E">>} THEN <<>>
                ELSE IF ~truthy(row.address) \/ ~truthy(row.city)
                        \/ ~truthy(row.state) THEN <<>>
                ELSE fullAddress
          [] pass = "geocode" ->
                IF truthy(row.lat) /\ truthy(row.lng) THEN <<>>
                ELSE IF ~truthy(row.address) \/ ~truthy(row.city)
                        \/ ~truthy(row.state) THEN <<>>
                ELSE fullAddress
          [] pass = "fix" ->
                IF address # <<>> /\ address[1] \in Digits THEN <<>>
                ELSE IF address = <<>> \/ address = <<".">> \/ address = <<"T","o","t","a","l">>
                THEN <<>>
                ELSE IF ~(includes(addrLower, <<"l","l","c">>)
                          \/ includes(addrLower, <<"i","n","c">>)
                          \/ includes(addrLower, <<"p","a","r","t","n","e","r","s","h","i","p">>)) THEN <<>>
                ELSE IF trim(row.store_name) = <<>> \/ trim(row.city) = <<>>
                THEN <<>>
                ELSE trim(row.store_name) \o <<","," ">> \o trim(row.city) \o <<","," ">>
                     \o trim(row.state)

\* The cell writes, in order, that a pass makes for a row after the
\* geocoder's outcome.
writesOf(pass, out) ==
    LET set(col, v) == IF v # <<>> THEN << <<col, v>> >> ELSE <<>>
        parts == set("address", out.address) \o set("city", out.city)
                 \o set("state", out.state) \o set("zip", out.zip)
    IN  IF out.status # "OK" THEN <<>>
        ELSE CASE pass = "normalize" ->
                    parts \o << <<"normalized", <<"<true>">> >> >>
              [] pass = "geocode" ->
                    << <<"lat", out.lat>>, <<"lng", out.lng>> >>
              [] pass = "fix" ->
                    IF out.address # <<>> /\ out.address[1] \in Digits
                    THEN parts \o << <<"lat", <<>> >>, <<"lng", <<>> >>,
                                     <<"normalized", <<>> >> >>
                    ELSE <<>>

\* The counter a pass increments for a row it sent a request for.
counted_asOk(pass, out) == "ok"

counted(pass, out) ==
    IF out.status = "throws" THEN "errors"
    ELSE IF pass = "fix"
    THEN IF writesOf(pass, out) # <<>> THEN "ok" ELSE "skipped"
    ELSE IF out.status = "OK" THEN "ok" ELSE "errors"

\* A row after the cell writes w (sheet.getRange(..).setValue(..)).
applyWrites(row, w) ==
    [f \in DOMAIN row |->
        IF \E k \in DOMAIN w : w[k][1] = f
        THEN w[CHOOSE k \in DOMAIN w : w[k][1] = f][2]
        ELSE row[f]]

MacroInit ==
    /\ sheet \in StringsUpTo(MacroSheetPool, MaxSheetRows)
    /\ values = <<>>
    /\ geocoded = <<>>
    /\ githubPat \in BOOLEAN
    /\ macroEntry = "none"
    /\ macroPc = "ready"
    /\ macroI = 0
    /\ tally = [ok |-> 0, skipped |-> 0, errors |-> 0]
    /\ geocodeCalls = 0
    /\ dispatches = 0
    /\ passesDone = <<>>
    /\ abortedFrom = [set |-> FALSE, pass |-> "none", values |-> <<>>]
    /\ macroRuns = 0
    /\ ReconcileIdle
    /\ IngestIdle
    /\ PublishIdle
    /\ ClientIdle

\* 'Update Website' is chosen in the menu, or fixCorporateAddresses is run;
\* a killed run is started again.  Its first pass reads the sheet
\* (getDataRange().getValues()).
MacroStart ==
    /\ macroPc \in {"ready", "done", "aborted"}
    /\ macroRuns < MaxMacroRuns
    /\ \E e \in {"updateWebsite", "fixCorporateAddresses"} :
        /\ macroPc = "aborted" => e = macroEntry
        /\ macroEntry' = e
        /\ macroPc' = IF e = "fixCorporateAddresses" THEN "fix" ELSE "normalize"
    /\ abortedFrom' = IF macroPc = "aborted" THEN abortedFrom
                      ELSE [set |-> FALSE, pass |-> "none", values |-> <<>>]
    /\ values' = sheet
    /\ macroI' = 1
    /\ tally' = [ok |-> 0, skipped |-> 0, errors |-> 0]
    /\ geocodeCalls' = 0
    /\ dispatches' = 0
    /\ passesDone' = <<>>
    /\ macroRuns' = macroRuns + 1
    /\ UNCHANGED <<sheet, geocoded, githubPat>>
    /\ UNCHANGED <<nonOpsVars, publishVars, clientVars>>

\* One iteration of a pass's loop.  The geocoder is deterministic: a query
\* asked before gets the outcome it got before.
MacroRow ==
    /\ macroPc \in {"normalize", "geocode", "fix"}
    /\ macroI <= Len(values)
    /\ LET q == queryOf(macroPc, values[macroI])
       IN  IF q = <<>>
           THEN UNCHANGED <<sheet, geocoded, tally, geocodeCalls>>
           ELSE \E out \in GeocodeOutcomes :
                   /\ q \in DOMAIN geocoded => out = geocoded[q]
                   /\ geocoded' = [x \in DOMAIN geocoded \cup {q} |->
                                      IF x = q THEN out ELSE geocoded[x]]
                   /\ geocodeCalls' = geocodeCalls + 1
                   /\ sheet' = [sheet EXCEPT ![macroI] =
                                   applyWrites(@, writesOf(macroPc, out))]
                   /\ tally' = [tally EXCEPT ![counted(macroPc, out)] = @ + 1]
    /\ macroI' = macroI + 1
    /\ UNCHANGED <<values, githubPat, macroEntry, macroPc, dispatches,
                   passesDone, abortedFrom, macroRuns>>
    /\ UNCHANGED <<nonOpsVars, publishVars, clientVars>>

\* The run is killed from outside during an iteration, after some but not
\* all of the row's cell writes.
MacroAbort ==
    /\ macroPc \in {"normalize", "geocode", "fix"}
    /\ macroI <= Len(values)
    /\ ~abortedFrom.set
    /\ LET q == queryOf(macroPc, values[macroI])
       IN  /\ q # <<>>
           /\ \E out \in GeocodeOutcomes :
                /\ q \in DOMAIN geocoded => out = geocoded[q]
                /\ geocoded' = [x \in DOMAIN geocoded \cup {q} |->
                                   IF x = q THEN out ELSE geocoded[x]]
                /\ \E k \in 0..(Len(writesOf(macroPc, out)) - 1) :
                     sheet' = [sheet EXCEPT ![macroI] =
                                  applyWrites(@, SubSeq(writesOf(macroPc, out), 1, k))]
    /\ geocodeCalls' = geocodeCalls + 1
    /\ abortedFrom' = [set |-> TRUE, pass |-> macroPc, values |-> values]
    /\ macroPc' = "aborted"
    /\ UNCHANGED <<values, githubPat, macroEntry, macroI, tally, dispatches,
                   passesDone, macroRuns>>
    /\ UNCHANGED <<nonOpsVars, publishVars, clientVars>>

\* The loop of a pass is over: the pass reports and returns; updateWebsite
\* goes on to its next step.
MacroPassEnd ==
    /\ macroPc \in {"normalize", "geocode", "fix"}
    /\ macroI > Len(values)
    /\ passesDone' = Append(passesDone, macroPc)
    /\ IF macroEntry = "updateWebsite" /\ macroPc = "normalize"
       THEN /\ macroPc' = "geocode"
            /\ values' = sheet
            /\ macroI' = 1
            /\ tally' = [ok |-> 0, skipped |-> 0, errors |-> 0]
       ELSE /\ macroPc' = IF macroEntry = "updateWebsite" THEN "sync" ELSE "done"
            /\ macroI' = 0
            /\ UNCHANGED <<values, tally>>
    /\ UNCHANGED <<sheet, geocoded, githubPat, macroEntry, geocodeCalls,
                   dispatches, abortedFrom, macroRuns>>
    /\ UNCHANGED <<nonOpsVars, publishVars, clientVars>>

\* triggerGitHubSync: without GITHUB_PAT an alert and return; with it one
\* workflow-dispatch request, whose answer only chooses the alert shown.
MacroSync_withoutPat ==
    /\ macroPc = "sync"
    /\ dispatches' = dispatches + 1
    /\ macroPc' = "done"
    /\ UNCHANGED <<sheet, values, geocoded, githubPat, macroEntry, macroI, tally,
                   geocodeCalls, passesDone, abortedFrom, macroRuns>>
    /\ UNCHANGED <<nonOpsVars, publishVars, clientVars>>

MacroSync ==
    /\ macroPc = "sync"
    /\ dispatches' = IF githubPat THEN dispatches + 1 ELSE dispatches
    /\ macroPc' = "done"
    /\ UNCHANGED <<sheet, values, geocoded, githubPat, macroEntry, macroI, tally,
                   geocodeCalls, passesDone, abortedFrom, macroRuns>>
    /\ UNCHANGED <<nonOpsVars, publishVars, clientVars>>

MacroNext ==
    \/ MacroStart
    \/ MacroRow
    \/ MacroAbort
    \/ MacroPassEnd
    \/ MacroSync

SpecMacro == MacroInit /\ [][MacroNext]_vars

\* ---------------------------------------------------------------------------
\* Claims about the spreadsheet macros
\* ---------------------------------------------------------------------------

\* The row of values the running pass is at, when it is at one.
AtRow == macroPc \in {"normalize", "geocode", "fix"} /\ macroI \in DOMAIN values

\* C23: a geocoding pass sends no request for, and leaves the lat and lng
\* of, a row that had both coordinates when the pass read the sheet; a
\* normalizing pass sends no request for, and writes no cell of, a row whose
\* normalized marker was TRUE.  (Rows a completed pass wrote carry the pair
\* or the marker, so this covers the pass run right after it.)
C23_DoneRowsSkipped ==
    [][AtRow =>
        /\ (/\ macroPc = "geocode"
            /\ values[macroI].lat # <<>>
            /\ values[macroI].lng # <<>>) =>
                /\ geocodeCalls' = geocodeCalls
                /\ sheet'[macroI].lat = sheet[macroI].lat
                /\ sheet'[macroI].lng = sheet[macroI].lng
        /\ (/\ macroPc = "normalize"
            /\ values[macroI].normalized \in {<<"<true>">>, <<"T","R","U","E">>}) =>
                /\ geocodeCalls' = geocodeCalls
                /\ sheet' = sheet]_vars

C25_FixKeepsCoordinates ==
    [][macroPc = "fix" =>
        \A i \in DOMAIN sheet :
            /\ sheet'[i].lat = sheet[i].lat
            /\ sheet'[i].lng = sheet[i].lng
            /\ sheet'[i].normalized = sheet[i].normalized]_vars

\* The pass that was killed has since been run again to its end.
RerunFinished(pass) ==
    /\ abortedFrom.set
    /\ abortedFrom.pass = pass
    /\ macroPc # "aborted"
    /\ macroI \in {0, 1}
    /\ passesDone # <<>>
    /\ passesDone[Len(passesDone)] = pass

\* The sheet one uninterrupted pass makes of the sheet the killed pass read,
\* with the outcomes the geocoder has given.
Uninterrupted(pass) ==
    [j \in DOMAIN abortedFrom.values |->
        LET q == queryOf(pass, abortedFrom.values[j])
        IN  IF q = <<>> THEN abortedFrom.values[j]
            ELSE applyWrites(abortedFrom.values[j],
                             writesOf(pass, geocoded[q]))]

\* C26: a normalizing or geocoding pass that was killed and then run again
\* to its end leaves the sheet one uninterrupted pass would have left.
C26_RerunSameAsOnePass ==
    \A pass \in {"normalize", "geocode"} :
        RerunFinished(pass) => sheet = Uninterrupted(pass)

MaxClientEvents == 3

\* stores.json as the page loads it.
ClientCatalog ==
    << [name |-> "A", type |-> <<"O","f","f","-","P","r","e","m","i","s","e">>,
        products |-> {"Moonlight Mayhem!"}, at |-> 0],
       [name |-> "B", type |-> <<"O","n","-","P","r","e","m","i","s","e">>,
        products |-> {"Ryes of the Robots"}, at |-> 8],
       [name |-> "C", type |-> <<>>, products |-> {}, at |-> 30] >>

\* filteredStores as showAllStores (byDistance false) and
\* filterAndDisplayStores (byDistance true) compute it: within the radius
\* and nearest first when by distance, then the type and product filters.
filterStores(all, byDistance, loc, radius, filters) ==
    LET dist(s) == IF s.at >= loc[1] THEN s.at - loc[1] ELSE loc[1] - s.at
        near == {i \in DOMAIN all : dist(all[i]) <= radius}
        before(i, j) == dist(all[i]) < dist(all[j])
                        \/ (dist(all[i]) = dist(all[j]) /\ i < j)
        sorted == [k \in 1..Cardinality(near) |->
                     LET i == CHOOSE i \in near :
                                 Cardinality({j \in near : before(j, i)}) = k - 1
                     IN  [name |-> all[i].name, type |-> all[i].type,
                          products |-> all[i].products, at |-> all[i].at,
                          distance |-> dist(all[i])]]
        typeOk(s) == filters.type = <<"a","l","l">>
                     \/ (s.type # <<>> /\ toLowerCase(s.type) = toLowerCase(filters.type))
        productOk(s) == filters.product = "all" \/ filters.product \in s.products
    IN  SelectSeq(SelectSeq(IF byDistance THEN sorted ELSE all, typeOk), productOk)

\* The stores updateStoreList and updateMarkers show.
storesToShow(filtered, loc, all) ==
    IF Len(filtered) > 0 \/ loc # <<>> THEN filtered ELSE all

\* What showAllStores and filterAndDisplayStores do before they suspend:
\* filteredStores is computed, the cards are rebuilt, updateMarkers takes
\* the markers of the array off the map, empties the array and awaits
\* importLibrary('marker').
display(byDistance, loc, radius, filters) ==
    /\ currentLocation' = loc
    /\ currentRadius' = radius
    /\ currentFilters' = filters
    /\ filteredStores' = filterStores(stores, byDistance, loc, radius, filters)
    /\ storeList' = storesToShow(filteredStores', loc, stores)
    /\ onMap' = onMap \ {markers[k] : k \in DOMAIN markers}
    /\ markers' = <<>>
    /\ pending' = pending + 1
    /\ clientEvents' = clientEvents + 1
    /\ UNCHANGED <<stores, markerSeq>>
    /\ UNCHANGED <<nonOpsVars, publishVars, macroVars>>

\* init() up to setupGeolocation: the stores are loaded, nothing is shown.
ClientInit ==
    /\ \E n \in 0..Len(ClientCatalog) : stores = SubSeq(ClientCatalog, 1, n)
    /\ markers = <<>>
    /\ onMap = {}
    /\ markerSeq = 0
    /\ currentLocation = <<>>
    /\ currentRadius = 10
    /\ filteredStores = <<>>
    /\ currentFilters = [type |-> <<"a","l","l">>, product |-> "all"]
    /\ storeList = <<>>
    /\ pending = 0
    /\ geolocated = FALSE
    /\ clientEvents = 0
    /\ ReconcileIdle
    /\ IngestIdle
    /\ PublishIdle
    /\ MacroIdle

\* The callbacks of getCurrentPosition: the position becomes the location
\* and the stores are filtered, or, on refusal, showAllStores is called.
ClientGeolocation ==
    /\ ~geolocated
    /\ clientEvents < MaxClientEvents
    /\ geolocated' = TRUE
    /\ \/ \E mile \in {0, 20} :
            display(TRUE, <<mile>>, currentRadius, currentFilters)
       \/ display(FALSE, currentLocation, currentRadius, currentFilters)

\* A place is selected in the search box, or typed text is geocoded.
ClientSearch ==
    /\ clientEvents < MaxClientEvents
    /\ \E mile \in {0, 20} :
            display(TRUE, <<mile>>, currentRadius, currentFilters)
    /\ UNCHANGED geolocated

\* A click on a radius button.
ClientRadius ==
    /\ clientEvents < MaxClientEvents
    /\ \E radius \in {5, 10, 25, 50, 100} :
            display(currentLocation # <<>>, currentLocation, radius,
                    currentFilters)
    /\ UNCHANGED geolocated

\* A change of the type select or of the product select, whose options are
\* 'all' and the types (in lower case) and products the stores have.
ClientFilter ==
    /\ clientEvents < MaxClientEvents
    /\ \/ \E i \in DOMAIN stores :
            \E t \in {<<"a","l","l">>, toLowerCase(stores[i].type)} :
                /\ t # <<>>
                /\ \E j \in DOMAIN stores : trim(stores[j].type) # <<>>
                /\ display(currentLocation # <<>>, currentLocation,
                           currentRadius, [currentFilters EXCEPT !.type = t])
       \/ \E i \in DOMAIN stores :
            \E p \in {"all"} \cup stores[i].products :
                /\ \E j \in DOMAIN stores : stores[j].products # {}
                /\ display(currentLocation # <<>>, currentLocation,
                           currentRadius, [currentFilters EXCEPT !.product = p])
    /\ UNCHANGED geolocated

\* A suspended updateMarkers call goes on after its await: it reads
\* filteredStores and currentLocation as they are now, and creates and
\* pushes one marker per store to show.
ClientResume ==
    /\ pending > 0
    /\ LET show == storesToShow(filteredStores, currentLocation, stores)
           new == [k \in DOMAIN show |->
                      [id |-> markerSeq + k, store |-> show[k].name]]
       IN  /\ markers' = markers \o new
           /\ onMap' = onMap \cup {new[k] : k \in DOMAIN new}
           /\ markerSeq' = markerSeq + Len(show)
    /\ pending' = pending - 1
    /\ UNCHANGED <<stores, currentLocation, currentRadius, filteredStores,
                   currentFilters, storeList, geolocated, clientEvents>>
    /\ UNCHANGED <<nonOpsVars, publishVars, macroVars>>

ClientNext ==
    \/ ClientGeolocation
    \/ ClientSearch
    \/ ClientRadius
    \/ ClientFilter
    \/ ClientResume

SpecClient == ClientInit /\ [][ClientNext]_vars

\* ---------------------------------------------------------------------------
\* Claims about the map client
\* ---------------------------------------------------------------------------

\* A loaded store passes the filters that are active now.
PassesFilters(s) ==
    /\ currentFilters.type # <<"a","l","l">> => toLowerCase(s.type) = currentFilters.type
    /\ currentFilters.product # "all" => currentFilters.product \in s.products
    /\ currentLocation # <<>> =>
          /\ s.at - currentLocation[1] <= currentRadius
          /\ currentLocation[1] - s.at <= currentRadius

\* C29: every store on a card or under a marker passes all the filters that
\* are active; so when no store passes them, none is shown.
C29_ShownPassFilters ==
    \A i \in DOMAIN stores :
        (\/ \E k \in DOMAIN storeList : storeList[k].name = stores[i].name
         \/ \E k \in DOMAIN markers : markers[k].store = stores[i].name)
            => PassesFilters(stores[i])

\* C30: when no updateMarkers call is pending any more, the markers array
\* holds one marker per card, in the order of the cards, and the markers on
\* the map are those of the array.
C30_MarkersMatchCards ==
    pending = 0 =>
        /\ Len(markers) = Len(storeList)
        /\ \A k \in DOMAIN markers : markers[k].store = storeList[k].name
        /\ onMap = {markers[k] : k \in DOMAIN markers}
=============================================================================
